---- MODULE Spec2Model ----
(***************************************************************************)
(* Model of the mollama chat shell: the App component (model provisioning, *)
(* model switching, navigation), the Chat component (prompt assembly,      *)
(* streaming completion) and the llama.config wrapper (sendMessage,        *)
(* cleanResponse).                                                         *)
(*                                                                         *)
(* Texts are sequences of characters; a character is a one-element string  *)
(* atom.  Fixed texts whose inner characters no code path inspects (the    *)
(* system prompt, the welcome message) are a single atom.                  *)
(*                                                                         *)
(* Event handlers run to their first await as one step; every await is a   *)
(* separate step whose result the environment picks.  React commits the    *)
(* state updates of a handler before the next event is dispatched, so a    *)
(* handler's closure sees the state at the start of its step.              *)
(***************************************************************************)
EXTENDS Integers, Sequences, FiniteSets, TLC

\* ---------------------------------------------------------------- bounds
\* provisioning runs started over the life of the App
MaxRuns == 3
\* catalogue entries the user picks from (the first NumModels ones)
NumModels == 2
\* mounts of the Chat component
MaxMounts == 2
\* messages sent over the life of the App
MaxSends == 2
\* token events over the life of the App
MaxTokens == 2

NULL == "null"
\* no pure-function call is under check
NoCall == [fn |-> "none"]
\* the null LlamaContext reference
NoContext == [path |-> <<>>, run |-> 0]

\* ------------------------------------------------------- model catalogue
\* sizeGB is kept in hundredths of a GB
AVAILABLE_MODELS ==
  << [id |-> "qwen3-1.7b", name |-> "Qwen3 1.7B",
      url |-> "https://huggingface.co/unsloth/Qwen3-1.7B-GGUF/resolve/main/Qwen3-1.7B-Q5_K_M.gguf",
      sizeGB |-> 110, maxParams |-> 2048],
     [id |-> "qwen2.5-vl-3b", name |-> "Qwen2.5-VL 3B",
      url |-> "https://huggingface.co/unsloth/Qwen2.5-VL-3B-Instruct-GGUF/resolve/main/Qwen2.5-VL-3B-Instruct-Q4_K_M.gguf",
      sizeGB |-> 193, maxParams |-> 4096],
     [id |-> "phi-3-mini", name |-> "Phi-3 Mini",
      url |-> "https://huggingface.co/unsloth/Phi-3-mini-GGUF/resolve/main/Phi-3-mini-Q5_K_M.gguf",
      sizeGB |-> 80, maxParams |-> 2048],
     [id |-> "llama3-1b", name |-> "Llama3 1B",
      url |-> "https://huggingface.co/unsloth/Llama-3-1B-GGUF/resolve/main/Llama-3-1B-Q5_K_M.gguf",
      sizeGB |-> 60, maxParams |-> 2048] >>

maxModelSizeGB == 200
maxContextLength == 4096

Models == { m \in 1..Len(AVAILABLE_MODELS) : m <= NumModels }

getModelPath(m) == <<"model_", AVAILABLE_MODELS[m].id, ".gguf">>

validateModelSelection(m) ==
  /\ ~(AVAILABLE_MODELS[m].sizeGB > maxModelSizeGB)
  /\ ~(AVAILABLE_MODELS[m].maxParams > maxContextLength)

\* ------------------------------------------------------------- variables
VARIABLES
  context,            \* App: LlamaContext handle or NULL
  loading,            \* App
  error,              \* App: message or NULL
  status,             \* App
  selectedModel,      \* App: index into AVAILABLE_MODELS
  showModelSelector,  \* App
  currentTab,         \* App: "chat" | "models"
  showSidebar,        \* App
  files,              \* the documents directory: paths that exist
  runs,               \* activations of downloadModel that have not been superseded
  nruns,              \* activations of downloadModel started so far
  chatEpoch,          \* mounts of Chat so far; the mounted instance is the chatEpoch-th
  messages,           \* Chat
  inputText,          \* Chat
  isLoading,          \* Chat
  chatError,          \* Chat: error
  systemPrompt,       \* Chat
  showSettings,       \* Chat
  messageIdCounter,   \* Chat module: counter behind generateId
  completions,        \* calls of createCompletion
  nsends,             \* createCompletion calls so far
  ntokens,            \* token events so far
  call,               \* pure functions: the arguments of the call under check
  result,             \* pure functions: what the call returned
  engine,             \* LocalInferenceEngine: the fields of the singleton inferenceEngine
  engineCalls,        \* LocalInferenceEngine: calls awaiting ModelDownloader.initialize()
  engineLog,          \* LocalInferenceEngine: the calls that have ended, in order
  chatScreen          \* ChatScreen: its state hooks and its send in flight

appVars == <<context, loading, error, status, selectedModel, showModelSelector,
             currentTab, showSidebar>>
provVars == <<files, runs, nruns>>
chatVars == <<chatEpoch, messages, inputText, isLoading, chatError, systemPrompt,
              showSettings, messageIdCounter>>
engineVars == <<engine, engineCalls, engineLog, chatScreen>>
progVars == <<appVars, provVars, chatVars, completions, nsends, ntokens>>
vars == <<progVars, call, result, engineVars>>


\* ------------------------------------------------------------ Chat texts
basePromptRest ==
  ".\n\nCRITICAL RULES: ... You are NOT a user asking questions - you are the assistant answering them."

\* basePrompt.replace('You are a helpful AI assistant', <per-model opening>)
getSystemPrompt(m) ==
  LET id == AVAILABLE_MODELS[m].id
      opening ==
        CASE id = "qwen3-1.7b" -> "You are Qwen, a helpful AI assistant"
          [] id = "qwen2.5-vl-3b" ->
               "You are Qwen2.5-VL, a helpful AI assistant that can see and understand images"
          [] id = "phi-3-mini" -> "You are Phi-3, a helpful AI assistant"
          [] id = "llama3-1b" -> "You are Llama, a helpful AI assistant"
          [] OTHER -> "You are a helpful AI assistant"
  IN <<opening, basePromptRest>>

welcomeText(m) ==
  <<"Welcome to ", AVAILABLE_MODELS[m].name,
    "! I'm here to help you with any questions or tasks. What would you like to work on today?">>

\* ------------------------------------------------------------- strings
Min(S) == CHOOSE x \in S : \A y \in S : x <= y

\* String.prototype.indexOf(pat, i), 1-based; 0 when there is no occurrence
Find(s, pat, i) ==
  LET cand == { j \in i..(Len(s) - Len(pat) + 1) : SubSeq(s, j, j + Len(pat) - 1) = pat }
  IN IF cand = {} THEN 0 ELSE Min(cand)

\* what \s and trim() treat as white space, among the characters used here
WhiteSpace == {" ", "\t", "\n", "\r"}
\* what the dot of a regex without the s flag does not match
LineTerminators == {"\n", "\r"}

RECURSIVE trimStart(_)
trimStart(s) ==
  IF s # <<>> /\ Head(s) \in WhiteSpace THEN trimStart(Tail(s)) ELSE s

RECURSIVE trimEnd(_)
trimEnd(s) ==
  IF s # <<>> /\ s[Len(s)] \in WhiteSpace THEN trimEnd(SubSeq(s, 1, Len(s) - 1)) ELSE s

\* String.prototype.trim
trim(s) == trimEnd(trimStart(s))

UpperCase == {"H", "E", "Y", "L", "O", "I", "S", "U", "P", "G", "R", "T", "N", "D"}

\* case folding of the i flag, on the letters used here
toLowerChar(c) ==
  CASE c = "H" -> "h" [] c = "E" -> "e" [] c = "Y" -> "y" [] c = "L" -> "l"
    [] c = "O" -> "o" [] c = "I" -> "i" [] c = "S" -> "s" [] c = "U" -> "u"
    [] c = "P" -> "p" [] c = "G" -> "g" [] c = "R" -> "r" [] c = "T" -> "t"
    [] c = "N" -> "n" [] c = "D" -> "d" [] OTHER -> c

toLower(s) == [k \in 1..Len(s) |-> toLowerChar(s[k])]

\* -------------------------------------------------------- cleanResponse
ThinkLimit == 200
ThinkOpen == <<"<", "t", "h", "i", "n", "k", ">">>
ThinkClose == <<"<", "/", "t", "h", "i", "n", "k", ">">>
Ellipsis == <<".", ".", ".">>
\* the character U+FF5C (fullwidth vertical line)
FWBar == "U+FF5C"
RedactedToken == <<"REDACTED_SPECIAL_TOKEN">>
EndOfSentence ==
  <<"<", " ", FWBar, "e", "n", "d", "_", "o", "f", "_", "s", "e", "n", "t", "e", "n", "c", "e",
    FWBar, ">">>

\* text.replace(/<think>(.*?)<\/think>/gs, ...) from position i on: content
\* longer than ThinkLimit is cut to ThinkLimit characters plus '...'
RECURSIVE limitThinking(_, _)
limitThinking(s, i) ==
  LET p == Find(s, ThinkOpen, i)
      q == IF p = 0 THEN 0 ELSE Find(s, ThinkClose, p + Len(ThinkOpen))
  IN IF q = 0 THEN SubSeq(s, i, Len(s))
     ELSE LET thinkingContent == SubSeq(s, p + Len(ThinkOpen), q - 1)
              match == SubSeq(s, p, q + Len(ThinkClose) - 1)
          IN SubSeq(s, i, p - 1)
             \o (IF Len(thinkingContent) > ThinkLimit
                 THEN ThinkOpen \o SubSeq(thinkingContent, 1, ThinkLimit) \o Ellipsis
                      \o ThinkClose
                 ELSE match)
             \o limitThinking(s, q + Len(ThinkClose))

\* .replace(/<think>.*?<\/think>/gs, '') from position i on
RECURSIVE removeThinking(_, _)
removeThinking(s, i) ==
  LET p == Find(s, ThinkOpen, i)
      q == IF p = 0 THEN 0 ELSE Find(s, ThinkClose, p + Len(ThinkOpen))
  IN IF q = 0 THEN SubSeq(s, i, Len(s))
     ELSE SubSeq(s, i, p - 1) \o removeThinking(s, q + Len(ThinkClose))

\* .replace(/<literal>/g, '') from position i on
RECURSIVE removeLiteral(_, _, _)
removeLiteral(s, lit, i) ==
  LET p == Find(s, lit, i)
  IN IF p = 0 THEN SubSeq(s, i, Len(s))
     ELSE SubSeq(s, i, p - 1) \o removeLiteral(s, lit, p + Len(lit))

\* .replace(/< FWBAR end_of_sentenceFWBAR >/gi, '') from position i on
RECURSIVE removeEndOfSentence(_, _)
removeEndOfSentence(s, i) ==
  LET p == Find(toLower(s), EndOfSentence, i)
  IN IF p = 0 THEN SubSeq(s, i, Len(s))
     ELSE SubSeq(s, i, p - 1) \o removeEndOfSentence(s, p + Len(EndOfSentence))

NoLineTerminator(s, a, b) == \A k \in a..b : s[k] \notin LineTerminators

\* .replace(/<\|.*?\|>/g, '') from position i on
RECURSIVE removeSpecialTokens(_, _)
removeSpecialTokens(s, i) ==
  LET p == Find(s, <<"<", "|">>, i)
      q == IF p = 0 THEN 0 ELSE Find(s, <<"|", ">">>, p + 2)
  IN IF q = 0 THEN SubSeq(s, i, Len(s))
     ELSE IF NoLineTerminator(s, p + 2, q - 1)
          THEN SubSeq(s, i, p - 1) \o removeSpecialTokens(s, q + 2)
          ELSE SubSeq(s, i, p) \o removeSpecialTokens(s, p + 1)

\* .replace(/<FWBAR .*?end.*?FWBAR >/gi, '') from position i on
RECURSIVE removeEndTokens(_, _)
removeEndTokens(s, i) ==
  LET low == toLower(s)
      p == Find(low, <<"<", FWBar>>, i)
      e == IF p = 0 THEN 0 ELSE Find(low, <<"e", "n", "d">>, p + 2)
      q == IF e = 0 THEN 0 ELSE Find(low, <<FWBar, ">">>, e + 3)
  IN IF p = 0 THEN SubSeq(s, i, Len(s))
     ELSE IF q # 0 /\ NoLineTerminator(s, p + 2, q - 1)
          THEN SubSeq(s, i, p - 1) \o removeEndTokens(s, q + 2)
          ELSE SubSeq(s, i, p) \o removeEndTokens(s, p + 1)

\* end of the run of white space that starts at position p
RECURSIVE spaceRunEnd(_, _)
spaceRunEnd(s, p) ==
  IF p < Len(s) /\ s[p + 1] \in WhiteSpace THEN spaceRunEnd(s, p + 1) ELSE p

\* .replace(/\n\s*\n\s*\n/g, '\n\n') from position i on: a match starts at a
\* newline whose white-space run holds three newlines and ends at the last of them
RECURSIVE normalizeNewlines(_, _)
normalizeNewlines(s, i) ==
  LET p == Find(s, <<"\n">>, i)
  IN IF p = 0 THEN SubSeq(s, i, Len(s))
     ELSE LET r == spaceRunEnd(s, p)
              nl == { k \in p..r : s[k] = "\n" }
              last == CHOOSE k \in nl : \A j \in nl : j <= k
          IN IF Cardinality(nl) >= 3
             THEN SubSeq(s, i, p - 1) \o <<"\n", "\n">> \o normalizeNewlines(s, last + 1)
             ELSE SubSeq(s, i, p) \o normalizeNewlines(s, p + 1)

\* variant: .replace(/\s+/g, ' '), every run of white space becomes one space
RECURSIVE normalizeSpaces_AllWhiteSpace(_)
normalizeSpaces_AllWhiteSpace(s) ==
  IF s = <<>> THEN <<>>
  ELSE IF Head(s) \in WhiteSpace
       THEN IF Len(s) > 1 /\ s[2] \in WhiteSpace
            THEN normalizeSpaces_AllWhiteSpace(Tail(s))
            ELSE <<" ">> \o normalizeSpaces_AllWhiteSpace(Tail(s))
       ELSE <<Head(s)>> \o normalizeSpaces_AllWhiteSpace(Tail(s))

\* .replace(/[ \t]+/g, ' ')
RECURSIVE normalizeSpaces(_)
normalizeSpaces(s) ==
  IF s = <<>> THEN <<>>
  ELSE IF Head(s) \in {" ", "\t"}
       THEN IF Len(s) > 1 /\ s[2] \in {" ", "\t"}
            THEN normalizeSpaces(Tail(s))
            ELSE <<" ">> \o normalizeSpaces(Tail(s))
       ELSE <<Head(s)>> \o normalizeSpaces(Tail(s))

\* variant: the chain without its final .trim()
cleanResponse_Untrimmed(text) ==
  LET limitedThinking == limitThinking(text, 1)
      s1 == removeThinking(limitedThinking, 1)
      s2 == removeLiteral(s1, RedactedToken, 1)
      s3 == removeSpecialTokens(s2, 1)
      s4 == removeEndOfSentence(s3, 1)
      s5 == removeEndTokens(s4, 1)
      s6 == normalizeNewlines(s5, 1)
  IN normalizeSpaces(s6)

cleanResponse(text) ==
  LET limitedThinking == limitThinking(text, 1)
      s1 == removeThinking(limitedThinking, 1)
      s2 == removeLiteral(s1, RedactedToken, 1)
      s3 == removeSpecialTokens(s2, 1)
      s4 == removeEndOfSentence(s3, 1)
      s5 == removeEndTokens(s4, 1)
      s6 == normalizeNewlines(s5, 1)
      s7 == normalizeSpaces(s6)
  IN trim(s7)

NoResponse == <<"No response generated">>

\* variant: sendMessage returns the cleaned text without the fallback string
sendMessageResult_NoFallback(text) == cleanResponse(text)

\* what sendMessage resolves to for the library's final text
sendMessageResult(text) ==
  LET cleanedText == cleanResponse(text)
  IN IF cleanedText # <<>> THEN cleanedText ELSE NoResponse

\* ------------------------------------------------------ prompt assembly
Greetings ==
  { <<"h", "e", "y">>, <<"h", "e", "l", "l", "o">>, <<"h", "i">>, <<"s", "u", "p">>,
    <<"y", "o">>, <<"g", "r", "e", "e", "t", "i", "n", "g", "s">> }

\* variant: the same test without the i flag
isSimpleGreeting_CaseSensitive(message) == trim(message) \in Greetings

\* /^(hey|hello|hi|sup|yo|greetings)$/i.test(message.trim())
isSimpleGreeting(message) == toLower(trim(message)) \in Greetings

UserRole == <<"U", "s", "e", "r">>
AssistantRole == <<"A", "s", "s", "i", "s", "t", "a", "n", "t">>

\* `${msg.isUser ? 'User' : 'Assistant'}: ${msg.text}`
historyLine(msg) ==
  (IF msg.isUser THEN UserRole ELSE AssistantRole) \o <<":", " ">> \o msg.text

\* variant: slice(0, n), the first n elements
sliceLast_FromStart(seq, n) ==
  SubSeq(seq, 1, IF Len(seq) > n THEN n ELSE Len(seq))

\* Array.prototype.slice(-n)
sliceLast(seq, n) ==
  SubSeq(seq, (IF Len(seq) > n THEN Len(seq) - n ELSE 0) + 1, Len(seq))

\* Array.prototype.join(sep)
RECURSIVE join(_, _)
join(lines, sep) ==
  IF lines = <<>> THEN <<>>
  ELSE IF Len(lines) = 1 THEN lines[1]
  ELSE lines[1] \o sep \o join(Tail(lines), sep)

HistoryWindow == 4

\* fullPrompt of createCompletion
fullPrompt(sysPrompt, msgs, message) ==
  IF isSimpleGreeting(message)
  THEN sysPrompt \o <<"\n", "\n">> \o UserRole \o <<":", " ">> \o message
  ELSE LET recentMessages == sliceLast(msgs, HistoryWindow)
           conversationHistory ==
             join([k \in 1..Len(recentMessages) |-> historyLine(recentMessages[k])],
                  <<"\n">>)
       IN sysPrompt \o <<"\n", "\n">> \o conversationHistory \o <<"\n">>
          \o UserRole \o <<":", " ">> \o message

\* ------------------------------------------------------------ App screen
\* which of the three returns of the App's render is taken
Screen(err, ld) == IF err # NULL THEN "error" ELSE IF ld THEN "loading" ELSE "main"

\* variant: the chat tab renders the Chat on every screen, ready or not
ChatShown_AnyScreen(ctx, ld, err, tab) == tab = "chat"

\* {context && <Chat .../>} inside the chat tab of the main screen
ChatShown(ctx, ld, err, tab) ==
  /\ Screen(err, ld) = "main"
  /\ tab = "chat"
  /\ ctx # NoContext

ChatMounted == ChatShown(context, loading, error, currentTab)

\* a createCompletion call whose context.completion has neither resolved nor thrown
Outstanding(c) == c.pc = "streaming"

\* state of a Chat instance that is not mounted; what its finished turns showed is gone
ChatGone ==
  /\ messages' = <<>>
  /\ inputText' = <<>>
  /\ isLoading' = FALSE
  /\ chatError' = NULL
  /\ systemPrompt' = <<>>
  /\ showSettings' = FALSE
  /\ completions' = SelectSeq(completions, Outstanding)
  /\ UNCHANGED <<chatEpoch, messageIdCounter>>

\* useState initial values and the welcome-message effect of a new instance
ChatMount ==
  /\ chatEpoch < MaxMounts
  /\ chatEpoch' = chatEpoch + 1
  /\ messageIdCounter' = messageIdCounter + 1
  /\ messages' = << [id |-> messageIdCounter + 1,
                     text |-> welcomeText(selectedModel'),
                     isUser |-> FALSE] >>
  /\ inputText' = <<>>
  /\ isLoading' = FALSE
  /\ chatError' = NULL
  /\ systemPrompt' = getSystemPrompt(selectedModel')
  /\ showSettings' = FALSE
  /\ UNCHANGED completions

\* React mounts or unmounts Chat when the App's render starts or stops showing it
ChatLifecycle ==
  LET after == ChatShown(context', loading', error', currentTab')
  IN IF ChatMounted = after THEN UNCHANGED <<chatVars, completions>>
     ELSE IF after THEN ChatMount
     ELSE ChatGone

\* ---------------------------------------------------------- provisioning
Ev(e, p, x) == [ev |-> e, path |-> p, info |-> x]

InFlight(r) == r.pc \notin {"done", "error"}

\* downloadModel(model) up to its first await (getInfoAsync)
StartRun(m, caller) ==
  /\ nruns < MaxRuns
  /\ nruns' = nruns + 1
  /\ status' = "Checking for existing model..."
  /\ runs' = Append(SelectSeq(runs, InFlight),
                    [id |-> nruns + 1, model |-> m, by |-> caller, pc |-> "check",
                     log |-> <<>>, uri |-> <<>>])

Step(i, pc2, evs) ==
  runs' = [runs EXCEPT ![i].pc = pc2, ![i].log = runs[i].log \o evs]

\* variant: the download of one fixed link, whatever model is selected
downloadResumable_FixedLink(m) ==
  Ev("download", getModelPath(m), AVAILABLE_MODELS[1].url)

\* FileSystem.createDownloadResumable(model.url, getModelPath(model), ...)
downloadResumable(m) == Ev("download", getModelPath(m), AVAILABLE_MODELS[m].url)

\* getInfoAsync resolved: load the existing file, or go on to the download
CheckExists(i) ==
  LET m == runs[i].model
      modelPath == getModelPath(m)
      isExists == modelPath \in files
  IN /\ runs[i].pc = "check"
     /\ IF isExists
        THEN /\ status' = "Loading existing model..."
             /\ Step(i, "load1", <<Ev("exists", modelPath, "true"),
                                   Ev("load", modelPath, "")>>)
        ELSE /\ status' = "Downloading model..."
             /\ Step(i, "download", <<Ev("exists", modelPath, "false"),
                                      downloadResumable(m)>>)
     /\ UNCHANGED <<context, loading, error, selectedModel, showModelSelector,
                    currentTab, showSidebar, files, nruns, nsends, ntokens, call, result, engineVars>>
     /\ ChatLifecycle

\* variant: the success branch without its return, falling through to the download
LoadExistingOk_FallsThrough(i) ==
  LET m == runs[i].model
      modelPath == getModelPath(m)
      ctx == [path |-> modelPath, run |-> runs[i].id]
  IN /\ runs[i].pc = "load1"
     /\ context' = ctx
     /\ loading' = FALSE
     /\ status' = "Downloading model..."
     /\ Step(i, "download", <<Ev("loadOk", modelPath, ""), downloadResumable(m)>>)
     /\ UNCHANGED <<error, selectedModel, showModelSelector, currentTab,
                    showSidebar, files, nruns, nsends, ntokens, call, result, engineVars>>
     /\ ChatLifecycle

\* loadModel(modelPath) on the existing file resolved
LoadExistingOk(i) ==
  LET modelPath == getModelPath(runs[i].model)
      ctx == [path |-> modelPath, run |-> runs[i].id]
  IN /\ runs[i].pc = "load1"
     /\ context' = ctx
     /\ loading' = FALSE
     /\ Step(i, "done", <<Ev("loadOk", modelPath, "")>>)
     /\ UNCHANGED <<error, status, selectedModel, showModelSelector, currentTab,
                    showSidebar, files, nruns, nsends, ntokens, call, result, engineVars>>
     /\ ChatLifecycle

\* variant: the load failure goes on to the download and leaves the file in place
LoadExistingThrows_KeepsFile(i) ==
  LET m == runs[i].model
      modelPath == getModelPath(m)
  IN /\ runs[i].pc = "load1"
     /\ status' = "Downloading model..."
     /\ Step(i, "download", <<Ev("loadThrow", modelPath, ""), downloadResumable(m)>>)
     /\ UNCHANGED <<context, loading, error, selectedModel, showModelSelector,
                    currentTab, showSidebar, files, nruns, nsends, ntokens, call, result, engineVars>>
     /\ ChatLifecycle

\* loadModel(modelPath) on the existing file threw: deleteAsync is called
LoadExistingThrows(i) ==
  LET modelPath == getModelPath(runs[i].model)
  IN /\ runs[i].pc = "load1"
     /\ Step(i, "delete", <<Ev("loadThrow", modelPath, ""),
                            Ev("delete", modelPath, "")>>)
     /\ UNCHANGED <<appVars, files, nruns, nsends, ntokens, call, result, engineVars>>
     /\ ChatLifecycle

\* variant: a failing deleteAsync reaches the catch block of downloadModel
DeleteDone_Rethrows(i, ok) ==
  LET m == runs[i].model
      modelPath == getModelPath(m)
  IN /\ runs[i].pc = "delete"
     /\ files' = IF ok THEN files \ {modelPath} ELSE files
     /\ IF ok
        THEN /\ status' = "Downloading model..."
             /\ Step(i, "download", <<Ev("deleteOk", modelPath, ""), downloadResumable(m)>>)
             /\ UNCHANGED <<error, loading>>
        ELSE /\ error' = "Failed to delete file"
             /\ loading' = FALSE
             /\ Step(i, "error", <<Ev("deleteThrow", modelPath, "")>>)
             /\ UNCHANGED status
     /\ UNCHANGED <<context, selectedModel, showModelSelector,
                    currentTab, showSidebar, nruns, nsends, ntokens, call, result, engineVars>>
     /\ ChatLifecycle

\* deleteAsync resolved (ok) or threw (the error is only logged); the download starts
DeleteDone(i, ok) ==
  LET m == runs[i].model
      modelPath == getModelPath(m)
  IN /\ runs[i].pc = "delete"
     /\ files' = IF ok THEN files \ {modelPath} ELSE files
     /\ status' = "Downloading model..."
     /\ Step(i, "download", <<Ev(IF ok THEN "deleteOk" ELSE "deleteThrow", modelPath, ""),
                              downloadResumable(m)>>)
     /\ UNCHANGED <<context, loading, error, selectedModel, showModelSelector,
                    currentTab, showSidebar, nruns, nsends, ntokens, call, result, engineVars>>
     /\ ChatLifecycle

\* results of downloadAsync(): undefined (paused or cancelled), or a result
\* with the destination uri and the HTTP status
DownloadResults == {"undefined", "200", "404"}

\* variant: the catch block ends the loading without recording the error
CatchError_Silent(msg) ==
  /\ error' = NULL
  /\ loading' = FALSE

\* the catch block of downloadModel
CatchError(msg) ==
  /\ error' = msg
  /\ loading' = FALSE

\* downloadAsync() resolved with res
DownloadReturns(i, res) ==
  LET m == runs[i].model
      uri == IF res = "undefined" THEN <<>> ELSE getModelPath(m)
  IN /\ runs[i].pc = "download"
     /\ files' = IF res = "undefined" THEN files ELSE files \cup {getModelPath(m)}
     /\ IF uri = <<>>
        THEN /\ CatchError("Download failed - no URI returned")
             /\ Step(i, "error", <<Ev("downloadReturn", uri, res)>>)
             /\ UNCHANGED status
        ELSE /\ status' = "Loading downloaded model..."
             /\ runs' = [runs EXCEPT ![i].pc = "load2", ![i].uri = uri,
                           ![i].log = runs[i].log \o <<Ev("downloadReturn", uri, res),
                                                       Ev("load", uri, "")>>]
             /\ UNCHANGED <<error, loading>>
     /\ UNCHANGED <<context, selectedModel, showModelSelector, currentTab,
                    showSidebar, nruns, nsends, ntokens, call, result, engineVars>>
     /\ ChatLifecycle

\* downloadAsync() rejected (network error)
DownloadThrows(i) ==
  /\ runs[i].pc = "download"
  /\ CatchError("Network request failed")
  /\ Step(i, "error", <<Ev("downloadThrow", <<>>, "")>>)
  /\ UNCHANGED <<context, status, selectedModel, showModelSelector, currentTab,
                 showSidebar, files, nruns, nsends, ntokens, call, result, engineVars>>
  /\ ChatLifecycle

\* loadModel(res.uri) resolved
LoadDownloadedOk(i) ==
  LET ctx == [path |-> runs[i].uri, run |-> runs[i].id]
  IN /\ runs[i].pc = "load2"
     /\ context' = ctx
     /\ loading' = FALSE
     /\ Step(i, "done", <<Ev("loadOk", runs[i].uri, "")>>)
     /\ UNCHANGED <<error, status, selectedModel, showModelSelector, currentTab,
                    showSidebar, files, nruns, nsends, ntokens, call, result, engineVars>>
     /\ ChatLifecycle

\* variant: a failed load of the downloaded file starts the download again
LoadDownloadedThrows_Retries(i) ==
  LET m == runs[i].model
  IN /\ runs[i].pc = "load2"
     /\ Len(runs[i].log) < 12
     /\ status' = "Downloading model..."
     /\ Step(i, "download", <<Ev("loadThrow", runs[i].uri, ""), downloadResumable(m)>>)
     /\ UNCHANGED <<context, loading, error, selectedModel, showModelSelector,
                    currentTab, showSidebar, files, nruns, nsends, ntokens, call, result, engineVars>>
     /\ ChatLifecycle

\* loadModel(res.uri) threw
LoadDownloadedThrows(i) ==
  /\ runs[i].pc = "load2"
  /\ CatchError("Failed to load model")
  /\ Step(i, "error", <<Ev("loadThrow", runs[i].uri, "")>>)
  /\ UNCHANGED <<context, status, selectedModel, showModelSelector, currentTab,
                 showSidebar, files, nruns, nsends, ntokens, call, result, engineVars>>
  /\ ChatLifecycle

\* ------------------------------------------------------------ App events
\* variant: the model selector is also shown over the loading screen, so a
\* switch can be made while a provisioning run is in flight
switchModel_WhileLoading(newModel) ==
  /\ Screen(error, loading) # "error"
  /\ showModelSelector \/ (~loading /\ ~showSidebar /\ currentTab = "models")
  /\ validateModelSelection(newModel)
  /\ selectedModel' = newModel
  /\ showModelSelector' = FALSE
  /\ loading' = TRUE
  /\ error' = NULL
  /\ context' = NoContext
  /\ StartRun(newModel, "switchModel")
  /\ UNCHANGED <<currentTab, showSidebar, files, nsends, ntokens, call, result, engineVars>>
  /\ ChatLifecycle

\* variant: the switch keeps the old handle as the App's context
switchModel_KeepsContext(newModel) ==
  /\ Screen(error, loading) = "main"
  /\ showModelSelector \/ (~showSidebar /\ currentTab = "models")
  /\ validateModelSelection(newModel)
  /\ selectedModel' = newModel
  /\ showModelSelector' = FALSE
  /\ loading' = TRUE
  /\ error' = NULL
  /\ StartRun(newModel, "switchModel")
  /\ UNCHANGED <<context, currentTab, showSidebar, files, nsends, ntokens, call, result, engineVars>>
  /\ ChatLifecycle

\* switchModel(newModel), from the Models tab or from the model selector modal
switchModel(newModel) ==
  /\ Screen(error, loading) = "main"
  /\ showModelSelector \/ (~showSidebar /\ currentTab = "models")
  /\ validateModelSelection(newModel)
  /\ selectedModel' = newModel
  /\ showModelSelector' = FALSE
  /\ loading' = TRUE
  /\ error' = NULL
  /\ context' = NoContext
  /\ StartRun(newModel, "switchModel")
  /\ UNCHANGED <<currentTab, showSidebar, files, nsends, ntokens, call, result, engineVars>>
  /\ ChatLifecycle

\* variant: Retry provisions the default model instead of the selected one
Retry_DefaultModel ==
  /\ Screen(error, loading) = "error"
  /\ error' = NULL
  /\ loading' = TRUE
  /\ StartRun(1, "Retry")
  /\ UNCHANGED <<context, selectedModel, showModelSelector, currentTab,
                 showSidebar, files, nsends, ntokens, call, result, engineVars>>
  /\ ChatLifecycle

\* the Retry button of the error screen
Retry ==
  /\ Screen(error, loading) = "error"
  /\ error' = NULL
  /\ loading' = TRUE
  /\ StartRun(selectedModel, "Retry")
  /\ UNCHANGED <<context, selectedModel, showModelSelector, currentTab,
                 showSidebar, files, nsends, ntokens, call, result, engineVars>>
  /\ ChatLifecycle

\* the "Switch Model" button of the loading screen
PressSwitchModel ==
  /\ Screen(error, loading) = "loading"
  /\ ~showModelSelector
  /\ showModelSelector' = TRUE
  /\ UNCHANGED <<context, loading, error, status, selectedModel, currentTab,
                 showSidebar, provVars, nsends, ntokens, call, result, engineVars>>
  /\ ChatLifecycle

\* the close button of the model selector modal
CloseModelSelector ==
  /\ Screen(error, loading) = "main"
  /\ showModelSelector
  /\ showModelSelector' = FALSE
  /\ UNCHANGED <<context, loading, error, status, selectedModel, currentTab,
                 showSidebar, provVars, nsends, ntokens, call, result, engineVars>>
  /\ ChatLifecycle

\* the menu button of the Chat header (onMenuPress) or of the Models tab
MenuPress ==
  /\ Screen(error, loading) = "main"
  /\ ~showModelSelector /\ ~showSidebar /\ ~showSettings
  /\ currentTab = "chat" => context # NoContext
  /\ showSidebar' = TRUE
  /\ UNCHANGED <<context, loading, error, status, selectedModel, showModelSelector,
                 currentTab, provVars, nsends, ntokens, call, result, engineVars>>
  /\ ChatLifecycle

\* the sidebar: its Chat and Models entries, its close button and the backdrop
SidebarSelect(tab) ==
  /\ Screen(error, loading) = "main"
  /\ ~showModelSelector /\ showSidebar
  /\ currentTab' = tab
  /\ showSidebar' = FALSE
  /\ UNCHANGED <<context, loading, error, status, selectedModel, showModelSelector,
                 provVars, nsends, ntokens, call, result, engineVars>>
  /\ ChatLifecycle

\* ----------------------------------------------------------- Chat events
\* texts the user types into the input field
Inputs ==
  { <<" ", "h", "i", "!", "\n">>, <<" ", " ">> }

\* token strings the native completion callback delivers (data.token)
Tokens == { <<>>, <<"a">>, <<" ">> }

\* final texts the native completion resolves with (msgResult.text)
Finals == { <<"o", "k", "<", "|", "e", "n", "d", "|", ">">>, <<"<", "|", "e", "n", "d", "|", ">">> }

\* what context.completion rejects with: an Error with its message, or a value
\* that is no Error
NoError == [isError |-> FALSE, message |-> ""]
Thrown == { [isError |-> TRUE, message |-> "Context is busy"], NoError }

\* the Chat is on screen and no modal or sidebar covers it
ChatInteractive ==
  /\ ChatMounted
  /\ ~showModelSelector /\ ~showSidebar /\ ~showSettings

\* TextInput onChangeText={setInputText}
ChangeText(t) ==
  /\ ChatInteractive
  /\ inputText # t
  /\ inputText' = t
  /\ UNCHANGED <<appVars, provVars, chatEpoch, messages, isLoading, chatError,
                 systemPrompt, showSettings, messageIdCounter, completions, nsends, ntokens, call, result, engineVars>>

\* the guard of handleSend: if (!inputText.trim() || isLoading) return
SendAllowed == trim(inputText) # <<>> /\ ~isLoading

\* variant: createCompletion reads the message list after the user's message
\* has been appended to it
handleSend_FreshHistory ==
  LET text == trim(inputText)
      userMessage == [id |-> messageIdCounter + 1, text |-> text, isUser |-> TRUE]
      streamingMessage == [id |-> messageIdCounter + 2, text |-> <<>>, isUser |-> FALSE]
  IN /\ ChatInteractive
     /\ SendAllowed
     /\ nsends < MaxSends
     /\ nsends' = nsends + 1
     /\ messageIdCounter' = messageIdCounter + 2
     /\ messages' = messages \o <<userMessage, streamingMessage>>
     /\ inputText' = <<>>
     /\ isLoading' = TRUE
     /\ chatError' = NULL
     /\ completions' =
          Append(SelectSeq(completions, Outstanding),
                 [id |-> nsends + 1, ctx |-> context, epoch |-> chatEpoch,
                  msgId |-> streamingMessage.id, pc |-> "streaming",
                  tokens |-> <<>>, updates |-> 0, final |-> <<>>, err |-> NoError,
                  message |-> text, history |-> messages \o <<userMessage>>,
                  prompt |-> fullPrompt(systemPrompt, messages \o <<userMessage>>, text)])
     /\ UNCHANGED <<appVars, provVars, chatEpoch, systemPrompt, showSettings, ntokens, call, result, engineVars>>

\* variant: generateId hands the id of the user message to the streaming
\* message as well
handleSend_SameIds ==
  LET text == trim(inputText)
      userMessage == [id |-> messageIdCounter + 1, text |-> text, isUser |-> TRUE]
      streamingMessage == [id |-> messageIdCounter + 1, text |-> <<>>, isUser |-> FALSE]
  IN /\ ChatInteractive
     /\ SendAllowed
     /\ nsends < MaxSends
     /\ nsends' = nsends + 1
     /\ messageIdCounter' = messageIdCounter + 1
     /\ messages' = messages \o <<userMessage, streamingMessage>>
     /\ inputText' = <<>>
     /\ isLoading' = TRUE
     /\ chatError' = NULL
     /\ completions' =
          Append(SelectSeq(completions, Outstanding),
                 [id |-> nsends + 1, ctx |-> context, epoch |-> chatEpoch,
                  msgId |-> streamingMessage.id, pc |-> "streaming",
                  tokens |-> <<>>, updates |-> 0, final |-> <<>>, err |-> NoError,
                  message |-> text, history |-> messages,
                  prompt |-> fullPrompt(systemPrompt, messages, text)])
     /\ UNCHANGED <<appVars, provVars, chatEpoch, systemPrompt, showSettings, ntokens, call, result, engineVars>>

\* variant: createCompletion does not add the streaming message before the
\* completion call
handleSend_RepliesLater ==
  LET text == trim(inputText)
      userMessage == [id |-> messageIdCounter + 1, text |-> text, isUser |-> TRUE]
      streamingMessage == [id |-> messageIdCounter + 2, text |-> <<>>, isUser |-> FALSE]
  IN /\ ChatInteractive
     /\ SendAllowed
     /\ nsends < MaxSends
     /\ nsends' = nsends + 1
     /\ messageIdCounter' = messageIdCounter + 2
     /\ messages' = messages \o <<userMessage>>
     /\ inputText' = <<>>
     /\ isLoading' = TRUE
     /\ chatError' = NULL
     /\ completions' =
          Append(SelectSeq(completions, Outstanding),
                 [id |-> nsends + 1, ctx |-> context, epoch |-> chatEpoch,
                  msgId |-> streamingMessage.id, pc |-> "streaming",
                  tokens |-> <<>>, updates |-> 0, final |-> <<>>, err |-> NoError,
                  message |-> text, history |-> messages,
                  prompt |-> fullPrompt(systemPrompt, messages, text)])
     /\ UNCHANGED <<appVars, provVars, chatEpoch, systemPrompt, showSettings, ntokens, call, result, engineVars>>

\* handleSend (send button or keyboard submit) through createCompletion up to
\* the await of context.completion
handleSend ==
  LET text == trim(inputText)
      userMessage == [id |-> messageIdCounter + 1, text |-> text, isUser |-> TRUE]
      streamingMessage == [id |-> messageIdCounter + 2, text |-> <<>>, isUser |-> FALSE]
  IN /\ ChatInteractive
     /\ SendAllowed
     /\ nsends < MaxSends
     /\ nsends' = nsends + 1
     /\ messageIdCounter' = messageIdCounter + 2
     /\ messages' = messages \o <<userMessage, streamingMessage>>
     /\ inputText' = <<>>
     /\ isLoading' = TRUE
     /\ chatError' = NULL
     /\ completions' =
          Append(SelectSeq(completions, Outstanding),
                 [id |-> nsends + 1, ctx |-> context, epoch |-> chatEpoch,
                  msgId |-> streamingMessage.id, pc |-> "streaming",
                  tokens |-> <<>>, updates |-> 0, final |-> <<>>, err |-> NoError,
                  message |-> text, history |-> messages,
                  prompt |-> fullPrompt(systemPrompt, messages, text)])
     /\ UNCHANGED <<appVars, provVars, chatEpoch, systemPrompt, showSettings, ntokens, call, result, engineVars>>

\* the Chat instance that issued completion c is still the mounted one
Alive(c) == ChatMounted /\ c.epoch = chatEpoch

\* newMessages.findIndex(msg => msg.id === streamingMessageId); 0 stands for -1
findIndex(msgs, msgId) ==
  LET found == { k \in DOMAIN msgs : msgs[k].id = msgId }
  IN IF found = {} THEN 0 ELSE Min(found)

\* setMessages(prev => ...) of the token callback: text + token
appendToken(msgs, msgId, token) ==
  LET streamingIndex == findIndex(msgs, msgId)
  IN IF streamingIndex = 0 THEN msgs
     ELSE [msgs EXCEPT ![streamingIndex].text = @ \o token]

\* setMessages(prev => ...) after sendMessage resolved: text: response
replaceText(msgs, msgId, response) ==
  LET streamingIndex == findIndex(msgs, msgId)
  IN IF streamingIndex = 0 THEN msgs
     ELSE [msgs EXCEPT ![streamingIndex].text = response]

\* variant: onToken sets the streaming message to the token instead of appending it
tokenCallback_Overwrites(i, token) ==
  LET c == completions[i]
      delivered == token # <<>>
  IN /\ c.pc = "streaming"
     /\ ntokens < MaxTokens
     /\ ntokens' = ntokens + 1
     /\ completions' = [completions EXCEPT
                          ![i].tokens = Append(c.tokens, token),
                          ![i].updates = IF delivered /\ Alive(c)
                                         THEN c.updates + 1 ELSE c.updates]
     /\ messages' = IF delivered /\ Alive(c)
                    THEN replaceText(messages, c.msgId, token)
                    ELSE messages
     /\ UNCHANGED <<appVars, provVars, chatEpoch, inputText, isLoading, chatError,
                    systemPrompt, showSettings, messageIdCounter, nsends, call, result, engineVars>>

\* variant: a token callback is taken also after the completion has ended
tokenCallback_AfterEnd(i, token) ==
  LET c == completions[i]
      delivered == token # <<>>
  IN /\ ntokens < MaxTokens
     /\ ntokens' = ntokens + 1
     /\ completions' = [completions EXCEPT
                          ![i].tokens = Append(c.tokens, token),
                          ![i].updates = IF delivered /\ Alive(c)
                                         THEN c.updates + 1 ELSE c.updates]
     /\ messages' = IF delivered /\ Alive(c)
                    THEN appendToken(messages, c.msgId, token)
                    ELSE messages
     /\ UNCHANGED <<appVars, provVars, chatEpoch, inputText, isLoading, chatError,
                    systemPrompt, showSettings, messageIdCounter, nsends, call, result, engineVars>>

\* the completion callback of sendMessage: an empty data.token is skipped,
\* any other token is handed to onToken, which appends it to the streaming message
tokenCallback(i, token) ==
  LET c == completions[i]
      delivered == token # <<>>
  IN /\ c.pc = "streaming"
     /\ ntokens < MaxTokens
     /\ ntokens' = ntokens + 1
     /\ completions' = [completions EXCEPT
                          ![i].tokens = Append(c.tokens, token),
                          ![i].updates = IF delivered /\ Alive(c)
                                         THEN c.updates + 1 ELSE c.updates]
     /\ messages' = IF delivered /\ Alive(c)
                    THEN appendToken(messages, c.msgId, token)
                    ELSE messages
     /\ UNCHANGED <<appVars, provVars, chatEpoch, inputText, isLoading, chatError,
                    systemPrompt, showSettings, messageIdCounter, nsends, call, result, engineVars>>

\* completion i has ended: its record stays while its Chat instance shows the turn
Ended(i, how) ==
  IF Alive(completions[i])
  THEN [completions EXCEPT ![i] = how]
  ELSE SubSeq(completions, 1, i - 1) \o SubSeq(completions, i + 1, Len(completions))

\* variant: the final response is returned but the streaming message keeps the
\* streamed text
completionResolves_KeepsStream(i, text) ==
  LET c == completions[i]
  IN /\ c.pc = "streaming"
     /\ completions' = Ended(i, [c EXCEPT !.pc = "resolved", !.final = text])
     /\ IF Alive(c)
        THEN /\ isLoading' = FALSE
             /\ UNCHANGED <<messages, chatError>>
        ELSE UNCHANGED <<messages, chatError, isLoading>>
     /\ UNCHANGED <<appVars, provVars, chatEpoch, inputText, systemPrompt,
                    showSettings, messageIdCounter, nsends, ntokens, call, result, engineVars>>

\* if (response && response.trim()): the response counts as an answer
hasResponse(response) == response # <<>> /\ trim(response) # <<>>

\* context.completion resolved with msgResult.text = text: sendMessage cleans
\* it, createCompletion replaces the streaming text or throws 'Empty response'
completionResolves(i, text) ==
  LET c == completions[i]
      response == sendMessageResult(text)
      nonEmpty == hasResponse(response)
  IN /\ c.pc = "streaming"
     /\ completions' = Ended(i, [c EXCEPT !.pc = "resolved", !.final = text])
     /\ IF Alive(c)
        THEN /\ messages' = IF nonEmpty
                            THEN replaceText(messages, c.msgId, response)
                            ELSE messages
             /\ chatError' = IF nonEmpty THEN chatError ELSE "Empty response from AI"
             /\ isLoading' = FALSE
        ELSE UNCHANGED <<messages, chatError, isLoading>>
     /\ UNCHANGED <<appVars, provVars, chatEpoch, inputText, systemPrompt,
                    showSettings, messageIdCounter, nsends, ntokens, call, result, engineVars>>

\* variant: the catch block takes the streaming message out of the list
completionThrows_RollsBack(i, err) ==
  LET c == completions[i]
      Kept(msg) == msg.id # c.msgId
  IN /\ c.pc = "streaming"
     /\ completions' = Ended(i, [c EXCEPT !.pc = "thrown", !.err = err])
     /\ IF Alive(c)
        THEN /\ chatError' = IF err.isError THEN err.message ELSE "Unknown error occurred"
             /\ isLoading' = FALSE
             /\ messages' = SelectSeq(messages, Kept)
        ELSE UNCHANGED <<messages, chatError, isLoading>>
     /\ UNCHANGED <<appVars, provVars, chatEpoch, inputText, systemPrompt,
                    showSettings, messageIdCounter, nsends, ntokens, call, result, engineVars>>

\* variant: createCompletion without its finally block
completionThrows_StaysLoading(i, err) ==
  LET c == completions[i]
  IN /\ c.pc = "streaming"
     /\ completions' = Ended(i, [c EXCEPT !.pc = "thrown", !.err = err])
     /\ IF Alive(c)
        THEN chatError' = IF err.isError THEN err.message ELSE "Unknown error occurred"
        ELSE UNCHANGED chatError
     /\ UNCHANGED <<appVars, provVars, chatEpoch, messages, inputText, isLoading, systemPrompt,
                    showSettings, messageIdCounter, nsends, ntokens, call, result, engineVars>>

\* context.completion rejected: the catch and finally blocks of createCompletion
completionThrows(i, err) ==
  LET c == completions[i]
  IN /\ c.pc = "streaming"
     /\ completions' = Ended(i, [c EXCEPT !.pc = "thrown", !.err = err])
     /\ IF Alive(c)
        THEN /\ chatError' = IF err.isError THEN err.message ELSE "Unknown error occurred"
             /\ isLoading' = FALSE
        ELSE UNCHANGED <<chatError, isLoading>>
     /\ UNCHANGED <<appVars, provVars, chatEpoch, messages, inputText, systemPrompt,
                    showSettings, messageIdCounter, nsends, ntokens, call, result, engineVars>>

\* -------------------------------------------------- LocalInferenceEngine
\* private model: any = null
NoModel == [name |-> "", path |-> <<>>]
\* private currentModelPath: string | null = null
NoPath == <<>>

\* the fields of a new LocalInferenceEngine
NewEngine ==
  [model |-> NoModel, tokenizer |-> NoModel, isInitialized |-> FALSE,
   currentModelPath |-> NoPath]

\* useState initial values of ChatScreen
NewChatScreen ==
  [mounted |-> FALSE, messages |-> <<>>, inputText |-> <<>>, isLoading |-> FALSE,
   isModelLoaded |-> FALSE, alert |-> NULL, sending |-> NoCall]

\* the engine has not been used and no ChatScreen is mounted
EngineIdle ==
  /\ engine = NewEngine
  /\ engineCalls = <<>>
  /\ engineLog = <<>>
  /\ chatScreen = NewChatScreen

\* isModelLoaded(): this.model !== null
isModelLoaded(eng) == eng.model # NoModel

\* the body of loadModel after the engine is initialized
loadModelBody(eng, modelPath) ==
  [eng EXCEPT !.currentModelPath = modelPath,
              !.model = [name |-> "llama-cpp-model", path |-> modelPath]]

\* variant: unloadModel clears the tokenizer only
unloadModelBody_KeepsModel(eng) ==
  [eng EXCEPT !.tokenizer = NoModel]

\* unloadModel(): model and tokenizer are set to null
unloadModelBody(eng) ==
  [eng EXCEPT !.model = NoModel, !.tokenizer = NoModel]

\* the placeholder response of generateText
placeholderResponse(prompt) ==
  <<"[llama.cpp placeholder] Response to: ", "\"">> \o prompt
    \o <<"\"", "\n", "\n", "This is a placeholder response. Actual llama.cpp inference will be implemented next.">>

\* generateText(prompt): throws without a model, else returns the response
generateTextResult(eng, prompt) ==
  IF eng.model = NoModel
  THEN [throws |-> TRUE, text |-> <<"No model loaded">>]
  ELSE [throws |-> FALSE, text |-> placeholderResponse(prompt)]

\* engine calls over the life of the engine
MaxCalls == 4

CallsLeft == Len(engineLog) + Len(engineCalls) < MaxCalls

Logged(op, by, outcome, eng) ==
  Append(engineLog, [op |-> op, by |-> by, outcome |-> outcome,
                     loaded |-> isModelLoaded(eng)])

\* what the caller of initialize() does when the call has ended: ChatScreen's
\* initializeEngine sets its flag or raises its alert
AfterInitialize(by, ok) ==
  IF by = "ChatScreen" /\ chatScreen.mounted
  THEN chatScreen' = IF ok THEN [chatScreen EXCEPT !.isModelLoaded = TRUE]
                     ELSE [chatScreen EXCEPT
                             !.alert = "Failed to initialize the local LLM engine"]
  ELSE UNCHANGED chatScreen

\* initialize(): returns at once when initialized, else awaits
\* ModelDownloader.initialize()
initialize(by) ==
  /\ CallsLeft
  /\ IF engine.isInitialized
     THEN /\ engineLog' = Logged("initialize", by, "returned", engine)
          /\ AfterInitialize(by, TRUE)
          /\ UNCHANGED <<engine, engineCalls>>
     ELSE /\ engineCalls' = Append(engineCalls, [op |-> "initialize", by |-> by,
                                                 path |-> NoPath])
          /\ UNCHANGED <<engine, engineLog, chatScreen>>
  /\ UNCHANGED <<progVars, call, result>>

\* loadModel(modelPath): initializes the engine first when needed, then
\* stores the path and the model
loadModel(by, modelPath) ==
  /\ CallsLeft
  /\ IF engine.isInitialized
     THEN /\ engine' = loadModelBody(engine, modelPath)
          /\ engineLog' = Logged("loadModel", by, "returned", engine')
          /\ UNCHANGED engineCalls
     ELSE /\ engineCalls' = Append(engineCalls, [op |-> "loadModel", by |-> by,
                                                 path |-> modelPath])
          /\ UNCHANGED <<engine, engineLog>>
  /\ UNCHANGED <<chatScreen, progVars, call, result>>

Without(seq, i) == SubSeq(seq, 1, i - 1) \o SubSeq(seq, i + 1, Len(seq))

\* ModelDownloader.initialize() of call i resolved (ok) or threw: initialize
\* sets isInitialized or rethrows; a loadModel that awaited it goes on to its
\* body or throws what initialize threw
ModelDownloaderInitialized(i, ok) ==
  LET c == engineCalls[i]
      initialized == [engine EXCEPT !.isInitialized = TRUE]
  IN /\ engineCalls' = Without(engineCalls, i)
     /\ IF ~ok
        THEN /\ engineLog' = Logged(c.op, c.by, "threw", engine)
             /\ UNCHANGED engine
             /\ IF c.op = "initialize" THEN AfterInitialize(c.by, FALSE)
                ELSE UNCHANGED chatScreen
        ELSE IF c.op = "initialize"
        THEN /\ engine' = initialized
             /\ engineLog' = Logged("initialize", c.by, "returned", engine')
             /\ AfterInitialize(c.by, TRUE)
        ELSE /\ engine' = loadModelBody(initialized, c.path)
             /\ engineLog' = Logged("loadModel", c.by, "returned", engine')
             /\ UNCHANGED chatScreen
     /\ UNCHANGED <<progVars, call, result>>

\* generateText(prompt) called by a client of the engine
generateText(by, prompt) ==
  /\ CallsLeft
  /\ engineLog' = Logged("generateText", by, generateTextResult(engine, prompt), engine)
  /\ UNCHANGED <<engine, engineCalls, chatScreen, progVars, call, result>>

\* unloadModel()
unloadModel(by) ==
  /\ CallsLeft
  /\ engine' = unloadModelBody(engine)
  /\ engineLog' = Logged("unloadModel", by, "returned", engine')
  /\ UNCHANGED <<engineCalls, chatScreen, progVars, call, result>>

\* ----------------------------------------------------------- ChatScreen
\* TextInput onChangeText={setInputText}, editable={!isLoading}
ChatScreen_setInputText(t) ==
  /\ chatScreen.mounted
  /\ ~chatScreen.isLoading
  /\ chatScreen.inputText # t
  /\ chatScreen' = [chatScreen EXCEPT !.inputText = t]
  /\ UNCHANGED <<engine, engineCalls, engineLog, progVars, call, result>>

\* messages sent from the ChatScreen
MaxScreenSends == 2

\* sendMessage of ChatScreen up to its await of generateText
ChatScreen_sendMessage ==
  LET text == trim(chatScreen.inputText)
      userMessage == [text |-> text, isUser |-> TRUE]
  IN /\ chatScreen.mounted
     /\ text # <<>> /\ ~chatScreen.isLoading
     /\ Cardinality({ k \in DOMAIN chatScreen.messages : chatScreen.messages[k].isUser })
          < MaxScreenSends
     /\ CallsLeft
     /\ engineLog' = Logged("generateText", "ChatScreen",
                            generateTextResult(engine, text), engine)
     /\ chatScreen' = [chatScreen EXCEPT
                         !.messages = Append(@, userMessage),
                         !.inputText = <<>>,
                         !.isLoading = TRUE,
                         !.sending = generateTextResult(engine, text)]
     /\ UNCHANGED <<engine, engineCalls, progVars, call, result>>

\* sendMessage of ChatScreen after the await: the assistant message or the
\* alert of the catch block, then the finally block
ChatScreen_sendMessageSettles ==
  LET response == chatScreen.sending
      assistantMessage == [text |-> response.text, isUser |-> FALSE]
  IN /\ chatScreen.mounted
     /\ chatScreen.sending # NoCall
     /\ chatScreen' = [chatScreen EXCEPT
                         !.messages = IF response.throws THEN @
                                      ELSE Append(@, assistantMessage),
                         !.alert = IF response.throws THEN "Failed to generate response"
                                   ELSE @,
                         !.isLoading = FALSE,
                         !.sending = NoCall]
     /\ UNCHANGED <<engine, engineCalls, engineLog, progVars, call, result>>

\* ------------------------------------------------------------------ Init
Init ==
  /\ context = NoContext
  /\ loading = TRUE
  /\ error = NULL
  /\ status = "Checking for existing model..."
  /\ selectedModel = 1
  /\ showModelSelector = FALSE
  /\ currentTab = "chat"
  /\ showSidebar = FALSE
  /\ files \in {{}, {getModelPath(1)}}
  /\ runs = << [id |-> 1, model |-> 1, by |-> "useEffect", pc |-> "check",
                log |-> <<>>, uri |-> <<>>] >>
  /\ nruns = 1
  /\ chatEpoch = 0
  /\ messages = <<>>
  /\ inputText = <<>>
  /\ isLoading = FALSE
  /\ chatError = NULL
  /\ systemPrompt = <<>>
  /\ showSettings = FALSE
  /\ messageIdCounter = 0
  /\ completions = <<>>
  /\ nsends = 0
  /\ ntokens = 0
  /\ EngineIdle
  /\ call = NoCall
  /\ result = NoCall

ProvisionNext ==
  \/ \E i \in 1..Len(runs) : CheckExists(i)
  \/ \E i \in 1..Len(runs) : LoadExistingOk(i)
  \/ \E i \in 1..Len(runs) : LoadExistingThrows(i)
  \/ \E i \in 1..Len(runs) : \E ok \in BOOLEAN : DeleteDone(i, ok)
  \/ \E i \in 1..Len(runs) : \E res \in DownloadResults : DownloadReturns(i, res)
  \/ \E i \in 1..Len(runs) : DownloadThrows(i)
  \/ \E i \in 1..Len(runs) : LoadDownloadedOk(i)
  \/ \E i \in 1..Len(runs) : LoadDownloadedThrows(i)

AppNext ==
  \/ \E m \in Models : switchModel(m)
  \/ Retry
  \/ PressSwitchModel
  \/ CloseModelSelector
  \/ MenuPress
  \/ \E tab \in {"chat", "models"} : SidebarSelect(tab)

\* sending a message and the end of its completion
TurnNext(inputs, finals) ==
  \/ \E t \in inputs : ChangeText(t)
  \/ handleSend
  \/ \E i \in 1..Len(completions) : \E text \in finals : completionResolves(i, text)
  \/ \E i \in 1..Len(completions) : \E err \in Thrown : completionThrows(i, err)

\* the token events of the outstanding completions
StreamNext(tokens) ==
  \E i \in 1..Len(completions) : \E token \in tokens : tokenCallback(i, token)

\* The App from its construction on: provisioning, navigation, model switches
\* and message turns.  Token events change nothing but the text of a streaming
\* message, which no guard reads; they are explored in SpecChat.
Next ==
  \/ ProvisionNext
  \/ AppNext
  \/ TurnNext({<<"h", "i", "!">>}, {<<"o", "k">>})

Spec == Init /\ [][Next]_vars

\* ------------------------------------------------------------- SpecChat
\* The App right after a first provisioning run that found the file of the
\* default model and loaded it: the Chat has just been mounted.
ReadyState ==
  /\ context = [path |-> getModelPath(1), run |-> 1]
  /\ loading = FALSE
  /\ error = NULL
  /\ status = "Loading existing model..."
  /\ selectedModel = 1
  /\ showModelSelector = FALSE
  /\ currentTab = "chat"
  /\ showSidebar = FALSE
  /\ files = {getModelPath(1)}
  /\ runs = << [id |-> 1, model |-> 1, by |-> "useEffect", pc |-> "done", uri |-> <<>>,
                log |-> << Ev("exists", getModelPath(1), "true"),
                           Ev("load", getModelPath(1), ""),
                           Ev("loadOk", getModelPath(1), "") >>] >>
  /\ nruns = 1
  /\ chatEpoch = 1
  /\ messages = << [id |-> 1, text |-> welcomeText(1), isUser |-> FALSE] >>
  /\ inputText = <<>>
  /\ isLoading = FALSE
  /\ chatError = NULL
  /\ systemPrompt = getSystemPrompt(1)
  /\ showSettings = FALSE
  /\ messageIdCounter = 1
  /\ completions = <<>>
  /\ nsends = 0
  /\ ntokens = 0
  /\ EngineIdle

InitChat ==
  /\ ReadyState
  /\ call = NoCall
  /\ result = NoCall

\* the sidebar navigation between the Chat tab and the Models tab
NavNext ==
  \/ MenuPress
  \/ \E tab \in {"chat", "models"} : SidebarSelect(tab)

\* message turns with their token streams, and the navigation that unmounts
\* and remounts the Chat
NextChat ==
  \/ NavNext
  \/ TurnNext(Inputs, Finals)
  \/ StreamNext(Tokens)

SpecChat == InitChat /\ [][NextChat]_vars

\* ----------------------------------------------------------- SpecPrompt
\* Prompt assembly as a function of the Chat state a send finds: the system
\* prompt, the message list and the text in the input field.
MaxHistory == 6

\* texts typed into the input field
PromptInputs ==
  { <<"h", "i">>, <<"H", "I">>, <<" ", "H", "i", "\n">>, <<"h", "e", "y">>,
    <<"H", "e", "l", "l", "o">>, <<"s", "u", "p">>, <<"\t", "Y", "O", " ">>,
    <<"G", "R", "E", "E", "T", "I", "N", "G", "S">>,
    <<"h", "i", "!">>, <<"h", "i", " ", "t", "h", "e", "r", "e">>, <<"h">>,
    <<"o", "h", " ", "h", "i">>, <<"h", "i", "\n", "y", "o">>, <<"y", "o", "u">>,
    <<" ", "\n">> }

\* what a message of the list can be: a user's text, a reply, a reply cut short
HistoryKinds ==
  { [text |-> <<"q">>, isUser |-> TRUE],
    [text |-> <<"r", "\n", "s">>, isUser |-> FALSE],
    [text |-> <<>>, isUser |-> FALSE] }

Histories ==
  UNION { { [k \in 1..n |-> [id |-> k, text |-> f[k].text, isUser |-> f[k].isUser]] :
              f \in [1..n -> HistoryKinds] } : n \in 0..MaxHistory }

SystemPrompts == { getSystemPrompt(1), <<"B", "e", " ", "b", "r", "i", "e", "f", ".">> }

InitPrompt ==
  /\ ReadyState
  /\ call \in { [fn |-> "fullPrompt", systemPrompt |-> sp, messages |-> h, inputText |-> t] :
                  sp \in SystemPrompts, h \in Histories, t \in PromptInputs }
  /\ result = NoCall

\* handleSend's guard and trim, then the prompt createCompletion builds
ApplyPrompt ==
  /\ call.fn = "fullPrompt"
  /\ result = NoCall
  /\ trim(call.inputText) # <<>>
  /\ result' = [prompt |-> fullPrompt(call.systemPrompt, call.messages, trim(call.inputText))]
  /\ UNCHANGED <<progVars, call, engineVars>>

SpecPrompt == InitPrompt /\ [][ApplyPrompt]_vars

\* ------------------------------------------------------------ SpecClean
\* cleanResponse as a function of the final text of a completion, applied
\* once by sendMessage and once more to its own output.
MaxPieces == 4
MaxText == 6

\* fragments of markers and of text a final text is put together from
Pieces ==
  { <<"<", "t", "h">>, <<"i", "n", "k", ">">>, ThinkClose, RedactedToken,
    <<"<", "|">>, <<"|", ">">>, <<"x">>, <<"\n">>, <<" ">> }

RECURSIVE Flatten(_)
Flatten(ps) == IF ps = <<>> THEN <<>> ELSE Head(ps) \o Flatten(Tail(ps))

PieceTexts == { Flatten(ps) : ps \in UNION { [1..n -> Pieces] : n \in 0..MaxPieces } }

\* texts without markers: words, newlines, spaces and tabs
PlainChars == {"x", "\n", " ", "\t"}
PlainTexts == UNION { [1..n -> PlainChars] : n \in 0..MaxText }

\* texts with a thinking span at, over and far over the limit, and with the
\* end markers written with fullwidth bars
FixedTexts ==
  { ThinkOpen \o [k \in 1..n |-> "x"] \o ThinkClose \o <<"o", "k">> :
      n \in {ThinkLimit, ThinkLimit + 1} }
  \cup { <<"a">> \o EndOfSentence \o <<"b">>,
         <<"a", "<", FWBar, "E", "n", "d", FWBar, ">", "\n", "\r", "\n", "\n", "b">> }

CleanInputs == PieceTexts \cup PlainTexts \cup FixedTexts

InitClean ==
  /\ ReadyState
  /\ call \in { [fn |-> "cleanResponse", text |-> t] : t \in CleanInputs }
  /\ result = NoCall

\* sendMessage cleans the final text
ApplyClean ==
  /\ call.fn = "cleanResponse"
  /\ result = NoCall
  /\ result' = [passes |-> 1, first |-> cleanResponse(call.text),
                text |-> cleanResponse(call.text)]
  /\ UNCHANGED <<progVars, call, engineVars>>

\* the cleaned text is cleaned again
ApplyCleanAgain ==
  /\ call.fn = "cleanResponse"
  /\ result # NoCall
  /\ result.passes = 1
  /\ result' = [passes |-> 2, first |-> result.text, text |-> cleanResponse(result.text)]
  /\ UNCHANGED <<progVars, call, engineVars>>

NextClean ==
  \/ ApplyClean
  \/ ApplyCleanAgain

SpecClean == InitClean /\ [][NextClean]_vars

\* --------------------------------------------------------- SpecProgress
\* The progress callbacks of the two download paths, fed the reports of one
\* download: the expected size is fixed, the bytes written only grow.
MaxBytes == 100

RECURSIVE GCD(_, _)
GCD(a, b) == IF b = 0 THEN a ELSE GCD(b, a % b)

\* the number n / d, d > 0, in lowest terms; a double up to its rounding
Quotient(n, d) ==
  LET g == GCD(n, d)
  IN [num |-> n \div g, den |-> d \div g]

Times(q, k) == Quotient(q.num * k, q.den)

\* (x).toFixed(1), as a number of tenths
toFixed1(q) == (2 * 10 * q.num + q.den) \div (2 * q.den)

\* const progress = totalBytesWritten / totalBytesExpectedToWrite
progress(downloadProgress) ==
  Quotient(downloadProgress.totalBytesWritten, downloadProgress.totalBytesExpectedToWrite)

\* variant: the downloader hands on the fraction itself
onProgress_Fraction(downloadProgress) == progress(downloadProgress)

\* ModelDownloader.downloadModel: what its callback passes to onProgress
onProgress(downloadProgress) == Times(progress(downloadProgress), 100)

\* the callback of the App's downloadResumable: the two states it sets
setDownloadProgress(downloadProgress) == progress(downloadProgress)

setStatusDownloading(m, downloadProgress) ==
  [text |-> "Downloading", name |-> AVAILABLE_MODELS[m].name,
   tenths |-> toFixed1(Times(progress(downloadProgress), 100))]

\* the App while the file of the default model is being downloaded
DownloadingState ==
  /\ context = NoContext
  /\ loading = TRUE
  /\ error = NULL
  /\ status = "Downloading model..."
  /\ selectedModel = 1
  /\ showModelSelector = FALSE
  /\ currentTab = "chat"
  /\ showSidebar = FALSE
  /\ files = {}
  /\ runs = << [id |-> 1, model |-> 1, by |-> "useEffect", pc |-> "download", uri |-> <<>>,
                log |-> << Ev("exists", getModelPath(1), "false"),
                           downloadResumable(1) >>] >>
  /\ nruns = 1
  /\ chatEpoch = 0
  /\ messages = <<>>
  /\ inputText = <<>>
  /\ isLoading = FALSE
  /\ chatError = NULL
  /\ systemPrompt = <<>>
  /\ showSettings = FALSE
  /\ messageIdCounter = 0
  /\ completions = <<>>
  /\ nsends = 0
  /\ ntokens = 0
  /\ EngineIdle

DownloadPaths == {"App", "ModelDownloader"}

InitProgress ==
  /\ DownloadingState
  /\ call \in { [fn |-> "downloadProgress", by |-> p, totalBytesWritten |-> 0,
                 totalBytesExpectedToWrite |-> e, reports |-> 0] :
                  p \in DownloadPaths, e \in 1..MaxBytes }
  /\ result = NoCall

\* the next report of the download: more bytes written, of the same total
Report(w) ==
  /\ call.fn = "downloadProgress"
  /\ w <= call.totalBytesExpectedToWrite
  /\ call.reports = 0 \/ w > call.totalBytesWritten
  /\ call' = [call EXCEPT !.totalBytesWritten = w, !.reports = 1]

\* the App's callback runs on the report
AppProgress(w) ==
  /\ call.by = "App"
  /\ Report(w)
  /\ result' = [downloadProgress |-> setDownloadProgress(call'),
                status |-> setStatusDownloading(runs[1].model, call')]
  /\ UNCHANGED <<progVars, engineVars>>

\* the downloader's callback runs on the report
DownloaderProgress(w) ==
  /\ call.by = "ModelDownloader"
  /\ Report(w)
  /\ result' = [onProgress |-> onProgress(call')]
  /\ UNCHANGED <<progVars, engineVars>>

NextProgress ==
  \/ \E w \in 0..MaxBytes : AppProgress(w)
  \/ \E w \in 0..MaxBytes : DownloaderProgress(w)

SpecProgress == InitProgress /\ [][NextProgress]_vars

\* ----------------------------------------------------------- SpecEngine
\* The LocalInferenceEngine singleton under every sequence of calls of a client.
EnginePaths == { <<"models/", "tinyllama-1b-q4">>, <<"models/", "phi-2-q4">> }
EnginePrompts == { <<"h", "i">> }

\* the App plays no part: it stays as it was constructed
AppAtRest ==
  /\ context = NoContext
  /\ loading = TRUE
  /\ error = NULL
  /\ status = "Checking for existing model..."
  /\ selectedModel = 1
  /\ showModelSelector = FALSE
  /\ currentTab = "chat"
  /\ showSidebar = FALSE
  /\ files = {}
  /\ runs = <<>>
  /\ nruns = 0
  /\ chatEpoch = 0
  /\ messages = <<>>
  /\ inputText = <<>>
  /\ isLoading = FALSE
  /\ chatError = NULL
  /\ systemPrompt = <<>>
  /\ showSettings = FALSE
  /\ messageIdCounter = 0
  /\ completions = <<>>
  /\ nsends = 0
  /\ ntokens = 0
  /\ call = NoCall
  /\ result = NoCall

InitEngine ==
  /\ AppAtRest
  /\ engine = NewEngine
  /\ engineCalls = <<>>
  /\ engineLog = <<>>
  /\ chatScreen = NewChatScreen

NextEngine ==
  \/ initialize("client")
  \/ \E p \in EnginePaths : loadModel("client", p)
  \/ \E p \in EnginePrompts : generateText("client", p)
  \/ unloadModel("client")
  \/ \E i \in 1..Len(engineCalls) : \E ok \in BOOLEAN : ModelDownloaderInitialized(i, ok)

SpecEngine == InitEngine /\ [][NextEngine]_vars

\* ----------------------------------------------------------- SpecScreen
\* The ChatScreen from its mount on, with the ModelsScreen's Load button as
\* the only caller of loadModel.
ScreenInputs == { <<"h", "i", " ">>, <<" ">> }

\* ChatScreen has mounted and its effect has called initializeEngine
InitScreen ==
  /\ AppAtRest
  /\ engine = NewEngine
  /\ engineCalls = << [op |-> "initialize", by |-> "ChatScreen", path |-> NoPath] >>
  /\ engineLog = <<>>
  /\ chatScreen = [NewChatScreen EXCEPT !.mounted = TRUE]

NextScreen ==
  \/ \E t \in ScreenInputs : ChatScreen_setInputText(t)
  \/ ChatScreen_sendMessage
  \/ ChatScreen_sendMessageSettles
  \/ \E p \in EnginePaths : loadModel("ModelsScreen", p)
  \/ \E i \in 1..Len(engineCalls) : \E ok \in BOOLEAN : ModelDownloaderInitialized(i, ok)

SpecScreen == InitScreen /\ [][NextScreen]_vars

\* ============================================================== claims
Events(r, e) == { k \in DOMAIN r.log : r.log[k].ev = e }
Run(i) == runs[i]
RunIds == DOMAIN runs
HandleOf(r, p) == [path |-> p, run |-> r.id]

\* the run found the file and its first loadModel threw
FirstLoadThrew(r) ==
  /\ Len(r.log) >= 3
  /\ r.log[1] = Ev("exists", getModelPath(r.model), "true")
  /\ r.log[3].ev = "loadThrow"

\* C1: in a run whose file exists and whose first loadModel throws, deleteAsync
\* is called on that file right after the failure, the download is invoked only
\* after the delete has finished (with the file gone when the delete succeeded)
\* and for the same model, and the run is not in the error state unless the
\* download or the second load failed too.
C1_DeleteThenDownload ==
  \A i \in RunIds :
    LET r == Run(i)
        modelPath == getModelPath(r.model)
    IN FirstLoadThrew(r) =>
         /\ Len(r.log) >= 4 /\ r.log[4] = Ev("delete", modelPath, "")
         /\ \A k \in Events(r, "download") :
              /\ k = 6
              /\ r.log[5].ev \in {"deleteOk", "deleteThrow"}
              /\ r.log[k] = Ev("download", modelPath, AVAILABLE_MODELS[r.model].url)
         /\ (r.pc = "download" /\ r.log[5].ev = "deleteOk") => modelPath \notin files
         /\ r.pc \in {"delete", "download", "load2"} => (error = NULL /\ loading)
         /\ r.pc = "error" =>
              /\ Len(r.log) > 6
              /\ r.log[Len(r.log)].ev \in {"downloadThrow", "downloadReturn", "loadThrow"}

C1_Witness ==
  \E i \in RunIds :
    /\ FirstLoadThrew(Run(i))
    /\ Events(Run(i), "deleteOk") # {}
    /\ Events(Run(i), "download") # {}
    /\ Run(i).pc = "done"

\* the run found the file and its first loadModel succeeded
FirstLoadOk(r) ==
  /\ Len(r.log) >= 3
  /\ r.log[1] = Ev("exists", getModelPath(r.model), "true")
  /\ r.log[3].ev = "loadOk"

\* C2: a run whose file exists and whose loadModel succeeds ends right there,
\* with the context set to the loaded handle, loading false and error unset,
\* and has invoked neither a delete nor a download.
C2_LoadExistingEndsRun ==
  \A i \in RunIds :
    LET r == Run(i)
    IN FirstLoadOk(r) =>
         /\ r.pc = "done"
         /\ Len(r.log) = 3
         /\ Events(r, "delete") = {} /\ Events(r, "download") = {}
         /\ context = HandleOf(r, getModelPath(r.model))
         /\ ~loading
         /\ error = NULL

C2_Witness ==
  \E i \in RunIds : FirstLoadOk(Run(i)) /\ Run(i).model = 2 /\ context # NoContext

\* the run found no file
FileAbsent(r) ==
  /\ Len(r.log) >= 1
  /\ r.log[1] = Ev("exists", getModelPath(r.model), "false")

\* C3: in a run whose file is absent the download is invoked first, with the
\* URL of the selected model; loadModel is invoked only right after the
\* download returned a result and with the uri it returned; the context is
\* set only by the success of that load.
C3_DownloadThenLoad ==
  \A i \in RunIds :
    LET r == Run(i)
        n == Len(r.log)
    IN FileAbsent(r) =>
         /\ r.model = selectedModel
         /\ n >= 2 /\ r.log[2] = Ev("download", getModelPath(r.model),
                                    AVAILABLE_MODELS[selectedModel].url)
         /\ r.pc = "download" => (n = 2 /\ Events(r, "load") = {})
         /\ \A k \in Events(r, "load") :
              /\ k = 4
              /\ r.log[3].ev = "downloadReturn"
              /\ r.log[3].path # <<>>
              /\ r.log[k].path = r.log[3].path
         /\ r.pc # "done" => context = NoContext
         /\ r.pc = "done" =>
              /\ n = 5 /\ r.log[5].ev = "loadOk"
              /\ context = HandleOf(r, r.log[3].path)

C3_Witness ==
  \E i \in RunIds :
    /\ FileAbsent(Run(i))
    /\ Run(i).model = 2
    /\ Run(i).pc = "done"
    /\ context = HandleOf(Run(i), getModelPath(2))

\* the download of the run returned no result or a non-success status
DownloadFailed(r) ==
  \E k \in Events(r, "downloadReturn") : r.log[k].info # "200"

\* C4: when the download ends with a non-success HTTP status or with no
\* result, loadModel is not invoked on the downloaded path and the run ends in
\* the error state (error set, loading false, context unset).
C4_FailedDownloadIsFatal ==
  \A i \in RunIds :
    LET r == Run(i)
    IN DownloadFailed(r) =>
         /\ \A k \in Events(r, "load") : \E j \in Events(r, "downloadReturn") : k < j
         /\ r.pc = "error"
         /\ error # NULL /\ ~loading /\ context = NoContext

\* C5: a run invokes the download at most once and loadModel at most twice;
\* when the loadModel after the download throws, the run ends there with error
\* set, loading false and the context unset.
C5_NoFurtherRetry ==
  \A i \in RunIds :
    LET r == Run(i)
        n == Len(r.log)
    IN /\ Cardinality(Events(r, "download")) <= 1
       /\ Cardinality(Events(r, "load")) <= 2
       /\ Cardinality(Events(r, "delete")) <= 1
       /\ (n >= 2 /\ r.log[n].ev = "loadThrow" /\ Events(r, "downloadReturn") # {}) =>
            /\ r.pc = "error"
            /\ error # NULL
            /\ ~loading
            /\ context = NoContext

C5_Witness ==
  \E i \in RunIds :
    LET r == Run(i)
    IN /\ Cardinality(Events(r, "load")) = 2
       /\ Cardinality(Events(r, "loadThrow")) = 2
       /\ r.pc = "error"

\* C6: a completion is started only while the App holds a context, is not
\* loading and has no error, and it is issued against that context.
C6_CompletionNeedsReadyContext ==
  [][nsends' > nsends =>
       /\ context # NoContext
       /\ ~loading
       /\ error = NULL
       /\ completions'[Len(completions')].ctx = context
       /\ context' = context /\ loading' = loading /\ error' = error]_vars

C6_Witness ==
  \E i \in DOMAIN completions :
    /\ completions[i].pc = "streaming"
    /\ completions[i].ctx.run = 2

\* C7: at most one completion is outstanding against a context at any time.
C7_OneCompletionPerContext ==
  \A i, j \in DOMAIN completions :
    (i # j /\ Outstanding(completions[i]) /\ Outstanding(completions[j]))
      => completions[i].ctx # completions[j].ctx

\* the words of the greeting allow-list
GreetingWords ==
  { <<"h", "e", "y">>, <<"h", "e", "l", "l", "o">>, <<"h", "i">>, <<"s", "u", "p">>,
    <<"y", "o">>, <<"g", "r", "e", "e", "t", "i", "n", "g", "s">> }

MatchesIgnoringCase(t, w) ==
  /\ Len(t) = Len(w)
  /\ \A k \in 1..Len(w) : t[k] = w[k] \/ toLowerChar(t[k]) = w[k]

OnAllowList(t) == \E w \in GreetingWords : MatchesIgnoringCase(t, w)

UserLine(t) == <<"U", "s", "e", "r", ":", " ">> \o t

Applied == call.fn = "fullPrompt" /\ result # NoCall

\* C8: for a message whose trimmed text is on the greeting allow-list, in any
\* letter case, the prompt is the system prompt, a blank line and the line
\* 'User: <message>', whatever the message list holds.
C8_GreetingOmitsHistory ==
  (Applied /\ OnAllowList(trim(call.inputText))) =>
    result.prompt = call.systemPrompt \o <<"\n", "\n">> \o UserLine(trim(call.inputText))

C8_Witness ==
  /\ Applied
  /\ call.inputText = <<"\t", "Y", "O", " ">>
  /\ Len(call.messages) = MaxHistory
  /\ Len(result.prompt) = Len(call.systemPrompt) + 10

\* lines a..b of the message list, each '<Role>: <text>', joined by newlines
RECURSIVE RoleLines(_, _, _)
RoleLines(msgs, a, b) ==
  IF a > b THEN <<>>
  ELSE (IF msgs[a].isUser THEN <<"U", "s", "e", "r">>
        ELSE <<"A", "s", "s", "i", "s", "t", "a", "n", "t">>)
       \o <<":", " ">> \o msgs[a].text
       \o (IF a < b THEN <<"\n">> ELSE <<>>)
       \o RoleLines(msgs, a + 1, b)

\* C9: for a message that is not on the allow-list, the prompt is the system
\* prompt, a blank line, the last 4 messages of the list (all of them when
\* there are fewer) in list order as '<Role>: <text>' lines, and the final
\* line 'User: <message>'.
C9_LastFourTurns ==
  (Applied /\ ~OnAllowList(trim(call.inputText))) =>
    LET n == Len(call.messages)
        first == IF n > 4 THEN n - 3 ELSE 1
    IN result.prompt =
         call.systemPrompt \o <<"\n", "\n">> \o RoleLines(call.messages, first, n)
         \o <<"\n">> \o UserLine(trim(call.inputText))

C9_Witness ==
  /\ Applied
  /\ call.inputText = <<"h", "i", " ", "t", "h", "e", "r", "e">>
  /\ Len(call.messages) = MaxHistory
  /\ call.messages[MaxHistory - 4].isUser
  /\ ~call.messages[MaxHistory - 3].isUser

RECURSIVE Concat(_)
Concat(toks) == IF toks = <<>> THEN <<>> ELSE Head(toks) \o Concat(Tail(toks))

NonEmptyCount(toks) == Cardinality({ k \in DOMAIN toks : toks[k] # <<>> })

TextsOf(msgId) == { messages[k].text : k \in { j \in DOMAIN messages : messages[j].id = msgId } }

\* C10 as stated: after the k-th token callback the streaming message holds
\* the first k tokens, and each of the k token events made one update.
C10_EveryTokenUpdates ==
  \A i \in DOMAIN completions :
    LET c == completions[i]
    IN c.pc = "streaming" =>
         /\ TextsOf(c.msgId) = {Concat(c.tokens)}
         /\ c.updates = Len(c.tokens)

\* C10 amended: while the Chat instance of a streaming turn is mounted, the
\* streaming message holds the concatenation of the tokens received so far, in
\* arrival order, and the message list was updated once per non-empty token;
\* a token event with an empty token, or one that arrives after the instance
\* was unmounted, updates nothing.
C10_TokensAppendInOrder ==
  \A i \in DOMAIN completions :
    LET c == completions[i]
    IN c.pc = "streaming" =>
         /\ c.updates <= NonEmptyCount(c.tokens)
         /\ Alive(c) =>
              /\ TextsOf(c.msgId) = {Concat(c.tokens)}
              /\ c.updates = NonEmptyCount(c.tokens)
         /\ ~Alive(c) => TextsOf(c.msgId) = {}

C10_Witness ==
  \E i \in DOMAIN completions :
    LET c == completions[i]
    IN /\ c.pc = "streaming"
       /\ Alive(c)
       /\ c.tokens = << <<" ">>, <<"a">> >>
       /\ c.updates = 2

\* a turn whose completion has resolved, shown by the mounted Chat
Resolved(c) == c.pc = "resolved"

\* C11: when the completion of a turn has resolved, the text of the turn's
\* message is what sendMessage returned for the library's final text, namely
\* the cleaned final text whenever that is not empty, whatever tokens were
\* streamed before.
C11_SettledTextIsCleanedFinal ==
  \A i \in DOMAIN completions :
    LET c == completions[i]
    IN Resolved(c) =>
         /\ TextsOf(c.msgId) = {sendMessageResult(c.final)}
         /\ cleanResponse(c.final) # <<>> => TextsOf(c.msgId) = {cleanResponse(c.final)}

C11_Witness ==
  \E i \in DOMAIN completions :
    LET c == completions[i]
    IN /\ Resolved(c)
       /\ c.tokens = << <<"a">>, <<" ">> >>
       /\ c.final = <<"o", "k", "<", "|", "e", "n", "d", "|", ">">>
       /\ TextsOf(c.msgId) = { <<"o", "k">> }

\* C12: when the cleaned final text of a resolved completion is empty, the
\* turn's message holds the placeholder 'No response generated', the chat has
\* no error and is no longer loading.
C12_EmptyFinalGetsPlaceholder ==
  \A i \in DOMAIN completions :
    LET c == completions[i]
    IN (Resolved(c) /\ cleanResponse(c.final) = <<>>) =>
         /\ TextsOf(c.msgId) = { <<"No response generated">> }
         /\ chatError = NULL
         /\ ~isLoading

C12_Witness ==
  \E i \in DOMAIN completions :
    LET c == completions[i]
    IN /\ Resolved(c)
       /\ c.final = <<"<", "|", "e", "n", "d", "|", ">">>
       /\ c.tokens = << <<" ">> >>
       /\ TextsOf(c.msgId) = {NoResponse}

\* C13: when the completion of a turn has thrown after k >= 0 tokens, the chat
\* error is the message of the thrown Error ('Unknown error occurred' for a
\* thrown value that is no Error) and the turn's message is still in the list
\* with the concatenation of the k tokens as its text.
C13_ThrowKeepsPartialText ==
  \A i \in DOMAIN completions :
    LET c == completions[i]
    IN c.pc = "thrown" =>
         /\ TextsOf(c.msgId) = {Concat(c.tokens)}
         /\ Cardinality({ k \in DOMAIN messages : messages[k].id = c.msgId }) = 1
         /\ chatError = IF c.err.isError THEN c.err.message ELSE "Unknown error occurred"

C13_Witness ==
  \E i \in DOMAIN completions :
    LET c == completions[i]
    IN /\ c.pc = "thrown"
       /\ c.err.isError
       /\ c.tokens = << <<"a">>, <<" ">> >>
       /\ TextsOf(c.msgId) = { <<"a", " ">> }
       /\ cleanResponse(<<"a", " ">>) # <<"a", " ">>

\* C14: after the completion of a turn has thrown the chat is not loading, and
\* the handleSend that follows clears the error, sets loading and issues a new
\* completion for the trimmed input against the context.
C14_NextSendAfterThrow ==
  [][/\ \A i \in DOMAIN completions : completions[i].pc = "thrown" => ~isLoading
     /\ (nsends' > nsends /\ \E i \in DOMAIN completions : completions[i].pc = "thrown") =>
          LET new == completions'[Len(completions')]
          IN /\ chatError' = NULL
             /\ isLoading'
             /\ new.pc = "streaming"
             /\ new.id = nsends'
             /\ new.ctx = context
             /\ new.message = trim(inputText)]_vars

C14_Witness ==
  /\ Len(messages) = 5
  /\ messages[3].text = <<"a">>
  /\ chatError = NULL
  /\ isLoading
  /\ \E i \in DOMAIN completions :
       completions[i].id = 2 /\ completions[i].pc = "streaming" /\ Alive(completions[i])

\* C15 as stated: every turn that has ended went through the cleanup, so its
\* message holds what the cleanup of a final text produced.
C15_EveryTurnFinalizes ==
  \A i \in DOMAIN completions :
    LET c == completions[i]
    IN c.pc # "streaming" =>
         /\ Resolved(c)
         /\ TextsOf(c.msgId) = {sendMessageResult(c.final)}

TextsIn(msgs, msgId) == { msgs[k].text : k \in { j \in DOMAIN msgs : msgs[j].id = msgId } }

\* the message of the list is the streaming message of a turn in progress
InProgress(msg) ==
  \E i \in DOMAIN completions :
    /\ Outstanding(completions[i])
    /\ Alive(completions[i])
    /\ completions[i].msgId = msg.id

\* C15 amended: a turn starts in streaming with no token, takes token events
\* one at a time while streaming, and ends once: settled with the cleaned
\* final text when the completion resolves, or left as it is, with no cleanup,
\* when the completion throws.  It never goes back, and while the Chat
\* instance stays mounted no event changes or removes a message that is not
\* the streaming message of a turn in progress.
C15_TurnOrder ==
  [][/\ \A j \in DOMAIN completions' :
          LET d == completions'[j]
              before == { i \in DOMAIN completions : completions[i].id = d.id }
          IN /\ before = {} => (d.pc = "streaming" /\ d.tokens = <<>>)
             /\ \A i \in before :
                  LET c == completions[i]
                  IN \/ d = c
                     \/ /\ c.pc = "streaming" /\ d.pc = "streaming"
                        /\ Len(d.tokens) = Len(c.tokens) + 1
                        /\ SubSeq(d.tokens, 1, Len(c.tokens)) = c.tokens
                     \/ /\ c.pc = "streaming" /\ d.pc = "resolved"
                        /\ d.tokens = c.tokens
                        /\ TextsIn(messages', d.msgId) = {sendMessageResult(d.final)}
                     \/ /\ c.pc = "streaming" /\ d.pc = "thrown"
                        /\ d.tokens = c.tokens
                        /\ TextsIn(messages', d.msgId) = TextsIn(messages, c.msgId)
     /\ (ChatMounted /\ ChatMounted' /\ chatEpoch' = chatEpoch) =>
          /\ Len(messages') >= Len(messages)
          /\ \A k \in DOMAIN messages :
               ~InProgress(messages[k]) => messages'[k] = messages[k]]_vars

C15_Witness ==
  /\ Len(messages) = 5
  /\ messages[3].text = <<"o", "k">>
  /\ \E i \in DOMAIN completions :
       LET c == completions[i]
       IN /\ c.id = 2 /\ c.pc = "thrown" /\ Alive(c)
          /\ c.tokens = << <<" ">> >>
          /\ messages[5].text = <<" ">>

\* C16 as stated: a turn for which no token has arrived, in progress or
\* thrown, has no assistant message in the list.
C16_NoReplyBeforeFirstToken ==
  \A i \in DOMAIN completions :
    LET c == completions[i]
    IN (Alive(c) /\ ~Resolved(c) /\ NonEmptyCount(c.tokens) = 0) => TextsOf(c.msgId) = {}

\* C16 amended: the assistant message of a turn is added to the list, with
\* empty text, when the turn is sent, right after the user message; a turn in
\* progress or thrown for which no token has arrived has that one assistant
\* message, with empty text.
C16_ReplyAddedAtSend ==
  \A i \in DOMAIN completions :
    LET c == completions[i]
        at == { k \in DOMAIN messages : messages[k].id = c.msgId }
    IN Alive(c) =>
         /\ Cardinality(at) = 1
         /\ \A k \in at :
              /\ ~messages[k].isUser
              /\ k > 1 /\ messages[k - 1].isUser /\ messages[k - 1].text = c.message
              /\ (~Resolved(c) /\ NonEmptyCount(c.tokens) = 0) => messages[k].text = <<>>

C16_Witness ==
  \E i \in DOMAIN completions :
    LET c == completions[i]
    IN /\ Alive(c)
       /\ c.pc = "thrown"
       /\ c.tokens = << <<>> >>
       /\ TextsOf(c.msgId) = { <<>> }

\* C17: while the App has an error the Chat is not rendered and no completion
\* starts; the error changes only by the Retry action, which clears it, sets
\* loading and starts a provisioning run for the selected model.
C17_ErrorBlocksUntilRetry ==
  [][error # NULL =>
       /\ ~ChatMounted
       /\ nsends' = nsends
       /\ selectedModel' = selectedModel
       /\ error' # error =>
            /\ error' = NULL
            /\ loading'
            /\ ~ChatMounted'
            /\ nruns' = nruns + 1
            /\ LET new == runs'[Len(runs')]
               IN /\ new.id = nruns'
                  /\ new.by = "Retry"
                  /\ new.model = selectedModel
                  /\ new.pc = "check"]_vars

C17_Witness ==
  \E i \in RunIds :
    /\ Run(i).by = "Retry"
    /\ Run(i).model = 2
    /\ Run(i).pc = "done"
    /\ ChatMounted

Cleaned == call.fn = "cleanResponse" /\ result # NoCall

\* C18: cleaning an already cleaned text yields the same text.
C18_Idempotent ==
  (Cleaned /\ result.passes = 2) => result.text = result.first

\* the text holds a <think> tag with a </think> tag somewhere after it
HasThinkSpan(s) ==
  LET p == Find(s, ThinkOpen, 1)
  IN p # 0 /\ Find(s, ThinkClose, p + Len(ThinkOpen)) # 0

\* C19: the output of cleanResponse holds no <think>...</think> span.
C19_NoThinkSpanLeft ==
  Cleaned => ~HasThinkSpan(result.text)

IsPlain(s) == \A k \in 1..Len(s) : s[k] \in PlainChars

Blank(ch) == ch \in {" ", "\t"}

\* no newline stands next to a space or a tab: every run of white space is a
\* run of newlines only or a run of spaces and tabs only
PureRuns(s) ==
  \A k \in 1..(Len(s) - 1) :
    /\ ~(s[k] = "\n" /\ Blank(s[k + 1]))
    /\ ~(Blank(s[k]) /\ s[k + 1] = "\n")

\* end of the run of characters of the set that starts at position p
RECURSIVE RunEnd(_, _, _)
RunEnd(s, p, set) ==
  IF p < Len(s) /\ s[p + 1] \in set THEN RunEnd(s, p + 1, set) ELSE p

\* run by run from position i on: 3 or more newlines become 2, a run of
\* spaces and tabs becomes one space, everything else stays
RECURSIVE RunwiseNormal(_, _)
RunwiseNormal(s, i) ==
  IF i > Len(s) THEN <<>>
  ELSE IF s[i] = "\n"
       THEN LET e == RunEnd(s, i, {"\n"})
            IN (IF e - i + 1 >= 3 THEN <<"\n", "\n">> ELSE SubSeq(s, i, e))
               \o RunwiseNormal(s, e + 1)
       ELSE IF Blank(s[i])
            THEN <<" ">> \o RunwiseNormal(s, RunEnd(s, i, {" ", "\t"}) + 1)
            ELSE <<s[i]>> \o RunwiseNormal(s, i + 1)

\* the text without the white space before its first and after its last
\* character that is no white space
Inner(s) ==
  LET solid == { k \in 1..Len(s) : s[k] \notin WhiteSpace }
  IN IF solid = {} THEN <<>>
     ELSE SubSeq(s, CHOOSE k \in solid : \A j \in solid : k <= j,
                    CHOOSE k \in solid : \A j \in solid : j <= k)

NoLongRuns(s) ==
  /\ \A k \in 1..(Len(s) - 2) : ~(s[k] = "\n" /\ s[k + 1] = "\n" /\ s[k + 2] = "\n")
  /\ \A k \in 1..(Len(s) - 1) : ~(Blank(s[k]) /\ Blank(s[k + 1]))

\* C20 as stated: in a text without markers whose runs of white space are
\* pure, every run of 3 or more newlines becomes exactly 2 newlines, every run
\* of spaces and tabs becomes one space and nothing else changes; the output
\* has no 3 consecutive newlines and no 2 consecutive spaces.
C20_EveryRunNormalized ==
  (Cleaned /\ result.passes = 1) =>
    /\ NoLongRuns(result.text)
    /\ (IsPlain(call.text) /\ PureRuns(call.text)) =>
         result.text = RunwiseNormal(call.text, 1)

\* positions k < l of characters that are no white space with a pure run of
\* white space, and nothing else, between them
PureRunBetween(s, k, l) ==
  /\ l > k + 1
  /\ s[k] \notin WhiteSpace /\ s[l] \notin WhiteSpace
  /\ \/ \A j \in (k + 1)..(l - 1) : s[j] = "\n"
     \/ \A j \in (k + 1)..(l - 1) : Blank(s[j])

\* what such a run becomes
NormalRun(run) ==
  IF Blank(run[1]) THEN <<" ">>
  ELSE IF Len(run) >= 3 THEN <<"\n", "\n">> ELSE run

\* C20 amended: white space at the start and at the end of the text is
\* removed; in a text without markers, a run of 3 or more newlines that
\* stands directly between two characters that are no white space becomes
\* exactly 2 newlines, a run of spaces and tabs there becomes one space, and a
\* run of 1 or 2 newlines there stays, the text on both sides being cleaned
\* on its own; for every input the output has no 3 consecutive newlines and
\* no 2 consecutive spaces or tabs.
C20_InnerRunsNormalized ==
  (Cleaned /\ result.passes = 1) =>
    LET s == call.text
    IN /\ NoLongRuns(result.text)
       /\ result.text = Inner(result.text)
       /\ IsPlain(s) =>
            \A k \in 1..Len(s) : \A l \in (k + 2)..Len(s) :
              PureRunBetween(s, k, l) =>
                result.text = cleanResponse(SubSeq(s, 1, k))
                              \o NormalRun(SubSeq(s, k + 1, l - 1))
                              \o cleanResponse(SubSeq(s, l, Len(s)))

C20_Witness ==
  /\ Cleaned
  /\ result.passes = 1
  /\ call.text = <<"x", "\n", "\n", "\n", "\n", "x">>
  /\ result.text = <<"x", "\n", "\n", "x">>

\* a progress report has been handled by the callback of its download path
Reported == call.fn = "downloadProgress" /\ result # NoCall

\* q is the number n / d
IsQuotient(q, n, d) == q.den > 0 /\ q.num * d = n * q.den

\* C21: for every progress report with totalBytesWritten = w and
\* totalBytesExpectedToWrite = e > 0, the callback of
\* ModelDownloader.downloadModel hands the percentage 100 * w / e to
\* onProgress, and the callback of the App's download stores the fraction
\* w / e as downloadProgress; each path does so for every report of a download.
C21_ProgressUnits ==
  Reported =>
    LET w == call.totalBytesWritten
        e == call.totalBytesExpectedToWrite
    IN /\ e > 0
       /\ call.by = "ModelDownloader" => IsQuotient(result.onProgress, 100 * w, e)
       /\ call.by = "App" => IsQuotient(result.downloadProgress, w, e)

\* 50 of 100 bytes: the downloader hands on 50
C21_Witness ==
  /\ Reported
  /\ call.by = "ModelDownloader"
  /\ call.totalBytesWritten = 50
  /\ call.totalBytesExpectedToWrite = 100
  /\ result.onProgress = [num |-> 50, den |-> 1]


\* the step is a call of switchModel that passed the validation
SwitchStep ==
  /\ nruns' = nruns + 1
  /\ runs'[Len(runs')].by = "switchModel"

\* the calls a provisioning run makes on the file system and on the library
ProvisioningCalls ==
  {"exists", "load", "loadOk", "loadThrow", "delete", "deleteOk", "deleteThrow",
   "download", "downloadReturn", "downloadThrow"}

\* C22: the App holds at most one context handle at a time, and a call of
\* switchModel with a valid model sets context to null before the new
\* model's provisioning makes its first call, and no release of the old
\* handle is called: the handle is only dropped.
C22_SwitchDropsContext ==
  [][ /\ context' # NoContext =>
           \E i \in DOMAIN runs' : context' = [path |-> context'.path, run |-> runs'[i].id]
      /\ \A i \in DOMAIN runs' : \A k \in DOMAIN runs'[i].log :
           runs'[i].log[k].ev \in ProvisioningCalls
      /\ SwitchStep =>
           /\ context # NoContext
           /\ context' = NoContext
           /\ runs'[Len(runs')].pc = "check"
           /\ runs'[Len(runs')].log = <<>>
           /\ runs'[Len(runs')].model = selectedModel' ]_vars

\* a switch has just dropped the handle of the model loaded before
C22_Witness ==
  /\ context = NoContext
  /\ loading
  /\ runs[Len(runs)].by = "switchModel"
  /\ runs[Len(runs)].pc = "check"
  /\ selectedModel = 2


\* the App's render reaches the chat: no error, not loading, a context
AppShowsChat == Screen(error, loading) = "main" /\ context # NoContext

RunsInFlight == { i \in DOMAIN runs : InFlight(runs[i]) }

\* C23: whenever the App shows the chat (loading false, error null, context
\* set), the context was loaded from the file of the selected model, after
\* every sequence of switchModel and Retry; switchModel and Retry are offered
\* only while no provisioning run is in flight, so at most one run is in
\* flight at any time and no run ends after a later one has started.
C23_ContextOfSelectedModel ==
  /\ AppShowsChat =>
       /\ context.path = getModelPath(selectedModel)
       /\ \E i \in DOMAIN runs :
            /\ runs[i].id = context.run
            /\ runs[i].model = selectedModel
            /\ runs[i].pc = "done"
  /\ Cardinality(RunsInFlight) <= 1
  /\ RunsInFlight # {} => loading /\ error = NULL

\* the chat is shown on the second model after a switch, a failed run and a Retry
C23_Witness ==
  /\ AppShowsChat
  /\ selectedModel = 2
  /\ nruns = 3
  /\ runs[Len(runs)].by = "Retry"
  /\ context.path = getModelPath(2)


\* C24: in every state of the App where loading is false, exactly one of the
\* two holds: error is set and context is null, or context is set and error
\* is null; the App never rests with both unset or with both set.
C24_ErrorOrContextAtRest ==
  ~loading =>
    \/ error # NULL /\ context = NoContext
    \/ error = NULL /\ context # NoContext

\* the App rests on the error of a failed run, without a context
C24_Witness ==
  /\ ~loading
  /\ error = "Failed to load model"
  /\ context = NoContext
  /\ runs[Len(runs)].pc = "error"
  /\ runs[Len(runs)].by = "switchModel"


\* the delete of the run's corrupted file threw
DeleteFailed(r) == Events(r, "deleteThrow") # {}

\* the message the catch block records for the call that ended the run
MessageOf(e) ==
  IF e.ev = "downloadThrow" THEN "Network request failed"
  ELSE IF e.ev = "downloadReturn" THEN "Download failed - no URI returned"
  ELSE IF e.ev = "loadThrow" THEN "Failed to load model"
  ELSE "none"

\* C25: when deleteAsync on the corrupted file throws, the error is swallowed:
\* the run goes on to invoke the download for the same model, and whether it
\* ends with the context or with an error is decided by the download and by
\* the load that follows it alone.
C25_DeleteErrorSwallowed ==
  \A i \in RunIds :
    LET r == Run(i)
        n == Len(r.log)
        modelPath == getModelPath(r.model)
    IN DeleteFailed(r) =>
         /\ n >= 6
         /\ r.log[5] = Ev("deleteThrow", modelPath, "")
         /\ r.log[6] = Ev("download", modelPath, AVAILABLE_MODELS[r.model].url)
         /\ r.pc \in {"download", "load2", "done", "error"}
         /\ r.pc \in {"download", "load2"} =>
              (error = NULL /\ loading /\ context = NoContext)
         /\ r.pc = "load2" =>
              (n = 8 /\ r.log[7] = Ev("downloadReturn", modelPath, r.log[7].info)
                     /\ r.log[8] = Ev("load", modelPath, ""))
         /\ r.pc = "done" =>
              /\ n = 9 /\ r.log[9] = Ev("loadOk", modelPath, "")
              /\ context = HandleOf(r, modelPath)
              /\ error = NULL /\ ~loading
         /\ r.pc = "error" =>
              /\ n \in {7, 9}
              /\ r.log[n].ev \in {"downloadThrow", "downloadReturn", "loadThrow"}
              /\ error = MessageOf(r.log[n])
              /\ context = NoContext /\ ~loading

\* a run whose delete threw and whose download and second load succeeded
C25_Witness ==
  \E i \in RunIds :
    /\ DeleteFailed(Run(i))
    /\ Run(i).pc = "done"
    /\ context = HandleOf(Run(i), getModelPath(Run(i).model))


\* C26: sendMessage never resolves to an empty or white-space-only string:
\* what cleanResponse returns is trimmed, and an empty cleaned text is
\* replaced by the placeholder; so createCompletion's test of the response
\* succeeds for every final text, its 'Empty response from AI' branch is never
\* taken, and the response it puts into the message is the cleaned text or the
\* placeholder.
C26_ResponseNeverEmpty ==
  (Cleaned /\ result.passes = 1) =>
    LET response == sendMessageResult(call.text)
    IN /\ hasResponse(response)
       /\ trim(response) = response
       /\ response = IF result.text = <<>> THEN NoResponse ELSE result.text

\* a final text of white space only: the cleaned text is empty
C26_Witness ==
  /\ Cleaned
  /\ result.passes = 1
  /\ call.text = <<" ", "\n", "\t">>
  /\ result.text = <<>>
  /\ sendMessageResult(call.text) = NoResponse


\* completion i is streaming and this step is an event of it: a token, the
\* resolution or the rejection of its context.completion call
EventOf(i) ==
  /\ completions[i].pc = "streaming"
  /\ nsends' = nsends
  /\ \A j \in DOMAIN completions' : completions'[j] # completions[i]

DistinctIds(msgs) ==
  \A k \in DOMAIN msgs : \A l \in DOMAIN msgs : k # l => msgs[k].id # msgs[l].id

\* C27: a token event and the final replacement of a turn change nothing in
\* the message list but the text of the in-progress message of that turn: the
\* list keeps its length and its order and every other message keeps every
\* field; the ids of the messages in the list are pairwise distinct.
C27_OnlyOwnTextChanges ==
  [][ /\ DistinctIds(messages')
      /\ \A i \in DOMAIN completions :
           EventOf(i) =>
             LET c == completions[i]
             IN /\ DOMAIN messages' = DOMAIN messages
                /\ \A k \in DOMAIN messages :
                     \/ messages'[k] = messages[k]
                     \/ /\ messages[k].id = c.msgId
                        /\ ~messages[k].isUser
                        /\ Alive(c)
                        /\ k > 1 /\ messages[k - 1] =
                             [id |-> c.msgId - 1, text |-> c.message, isUser |-> TRUE]
                        /\ messages'[k] = [messages[k] EXCEPT !.text = messages'[k].text] ]_vars

\* the second turn of a conversation has taken a token and then its final
\* text, the messages of the first turn standing before it
C27_Witness ==
  /\ Len(messages) = 5
  /\ Len(completions) = 1
  /\ completions[1].id = 2
  /\ completions[1].pc = "resolved"
  /\ completions[1].tokens = << <<"a">> >>
  /\ messages[3].text = <<"o", "k">>
  /\ messages[5].text = <<"o", "k">>


\* s ends with t
EndsWith(s, t) == Len(s) >= Len(t) /\ SubSeq(s, Len(s) - Len(t) + 1, Len(s)) = t

\* C28: the history of a turn is the message list as it was before the user's
\* new message was appended: the prompt is built from the messages that stand
\* before the new message in the list, it ends with the line 'User: <message>',
\* and neither the new message nor the empty in-progress message of the turn
\* is among the messages the history lines are made from.
C28_HistoryBeforeNewMessage ==
  \A i \in DOMAIN completions :
    LET c == completions[i]
        k == findIndex(messages, c.msgId)
    IN /\ EndsWith(c.prompt, <<"\n">> \o UserLine(c.message))
       /\ \A j \in DOMAIN c.history : c.history[j].id < c.msgId - 1
       /\ Alive(c) =>
            /\ k >= 3
            /\ messages[k - 1] = [id |-> c.msgId - 1, text |-> c.message, isUser |-> TRUE]
            /\ c.history = SubSeq(messages, 1, k - 2)
            /\ c.prompt = fullPrompt(systemPrompt, SubSeq(messages, 1, k - 2), c.message)

\* the second turn of a conversation is streaming: its prompt holds the three
\* earlier messages as history lines
C28_Witness ==
  \E i \in DOMAIN completions :
    LET c == completions[i]
    IN /\ Alive(c)
       /\ c.pc = "streaming"
       /\ Len(messages) = 5
       /\ Len(c.history) = 3
       /\ c.message = <<"h", "i", "!">>
       /\ c.prompt = systemPrompt \o <<"\n", "\n">>
                     \o join(<<historyLine(messages[1]), historyLine(messages[2]),
                               historyLine(messages[3])>>, <<"\n">>)
                     \o <<"\n">> \o UserLine(c.message)


\* before entry k of the log a loadModel has completed, and no unloadModel
\* has since
LoadedSinceUnload(log, k) ==
  \E j \in 1..(k - 1) :
    /\ log[j].op = "loadModel" /\ log[j].outcome = "returned"
    /\ \A l \in (j + 1)..(k - 1) : log[l].op # "unloadModel"

\* C29: for every sequence of initialize, loadModel, unloadModel and
\* generateText calls on the engine, generateText returns a response exactly
\* when isModelLoaded() is true, which is exactly when a loadModel has
\* completed since the last unloadModel, and otherwise throws 'No model
\* loaded'; an initialize after a successful initialize changes nothing.
C29_GenerateNeedsLoadedModel ==
  [][ /\ \A k \in DOMAIN engineLog' :
           LET e == engineLog'[k]
           IN e.op = "generateText" =>
                /\ ~e.outcome.throws <=> e.loaded
                /\ e.loaded <=> LoadedSinceUnload(engineLog', k)
                /\ e.outcome.throws => e.outcome.text = <<"No model loaded">>
                /\ ~e.outcome.throws =>
                     \E p \in EnginePrompts : e.outcome.text = placeholderResponse(p)
      /\ isModelLoaded(engine') <=> LoadedSinceUnload(engineLog', Len(engineLog') + 1)
      /\ (/\ engine.isInitialized
          /\ Len(engineCalls') >= Len(engineCalls)
          /\ Len(engineLog') = Len(engineLog) + 1
          /\ engineLog'[Len(engineLog')].op = "initialize") =>
           /\ engine' = engine
           /\ engineCalls' = engineCalls
           /\ engineLog'[Len(engineLog')].outcome = "returned" ]_vars

\* a generateText after loadModel answered, one after unloadModel threw
C29_Witness ==
  /\ Len(engineLog) = 4
  /\ engineLog[1].op = "loadModel" /\ engineLog[1].outcome = "returned"
  /\ engineLog[2].op = "generateText" /\ ~engineLog[2].outcome.throws
  /\ engineLog[3].op = "unloadModel"
  /\ engineLog[4].op = "generateText" /\ engineLog[4].outcome.throws


\* C30: in ChatScreen, whenever the isModelLoaded flag is true ('Local Model
\* Ready') the inference engine has a model loaded, so a sendMessage issued
\* in that state gets a response and appends an assistant message instead of
\* failing with 'No model loaded'.
C30_ReadyFlagMeansModelLoaded ==
  chatScreen.isModelLoaded =>
    /\ isModelLoaded(engine)
    /\ chatScreen.sending # NoCall => ~chatScreen.sending.throws


====
